---------------------------- MODULE Spec2Model ----------------------------
(***************************************************************************)
(* A model of the LLM-Search audit pipeline: the eight dimension scorers,  *)
(* the audit orchestrator (runFullAudit) with its AI overlay, the NDJSON   *)
(* stream of the audit endpoints and the site crawler.                     *)
(*                                                                         *)
(* Conventions.                                                            *)
(*  - Weights are integers in hundredths (0.25 is 25), so a weighted sum   *)
(*    is an integer in hundredths and Math.round is computed exactly       *)
(*    (round half up).  The code evaluates the same expressions in IEEE    *)
(*    doubles.                                                             *)
(*  - A text is a sequence of tokens; `includes` is the substring test on  *)
(*    token sequences.  A URL is the origin token followed by its path.    *)
(*  - A finding message is a tuple <<template, arguments...>>.             *)
(*  - Null stands for null/undefined.                                      *)
(***************************************************************************)
EXTENDS Integers, Sequences, FiniteSets, TLC

Null == "null"

\* A fetched text file is a record with a kind: "null" (absent), "empty" (the
\* empty string) or "text" (with the fields its scorer reads).
NullText == [kind |-> "null"]
EmptyText == [kind |-> "empty"]

\* `!x` of a string-or-null value
Falsy(x) == x.kind \in {"null", "empty"}

Min(a, b) == IF a <= b THEN a ELSE b
Max(a, b) == IF a >= b THEN a ELSE b

\* Math.min(100, Math.max(0, x))
Clamp(x) == Min(100, Max(0, x))

\* Math.round(n / d) for d > 0: the nearest integer, halves rounded up
RoundDiv(n, d) == (2 * n + d) \div (2 * d)

RECURSIVE SumSeq(_)
SumSeq(s) == IF s = <<>> THEN 0 ELSE Head(s) + SumSeq(Tail(s))

RECURSIVE FlatSeq(_)
FlatSeq(ss) == IF ss = <<>> THEN <<>> ELSE Head(ss) \o FlatSeq(Tail(ss))

\* [...s].filter(P) for a predicate given as a set of accepted indices
RECURSIVE FilterIdx(_, _, _)
FilterIdx(s, keep, i) ==
    IF i > Len(s) THEN <<>>
    ELSE (IF i \in keep THEN <<s[i]>> ELSE <<>>) \o FilterIdx(s, keep, i + 1)

\* String.prototype.includes on token sequences
Includes(s, t) ==
    \E i \in 1..(Len(s) + 1) :
        /\ i + Len(t) - 1 <= Len(s)
        /\ SubSeq(s, i, i + Len(t) - 1) = t

(***************************************************************************)
(* Program constants                                                       *)
(***************************************************************************)
AI_CRAWLERS ==
    << "GPTBot", "OAI-SearchBot", "ChatGPT-User", "ClaudeBot",
       "Claude-SearchBot", "Google-Extended", "Gemini-Deep-Research",
       "PerplexityBot", "Applebot-Extended", "Amazonbot", "Bingbot",
       "DuckAssistBot", "YouBot", "meta-externalagent", "PhindBot",
       "cohere-ai", "ExaBot" >>

\* DIMENSION_WEIGHTS, in hundredths
DIMENSION_WEIGHTS ==
    [ schema |-> 25, robots |-> 20, llmsTxt |-> 15, aeo |-> 15,
      meta |-> 10, sitemap |-> 5, semantic |-> 5, rendering |-> 5 ]

GRADE_THRESHOLDS ==
    << [min |-> 90, grade |-> "A"], [min |-> 80, grade |-> "B"],
       [min |-> 70, grade |-> "C"], [min |-> 60, grade |-> "D"],
       [min |-> 0, grade |-> "F"] >>

MAX_PAGES_TO_AUDIT == 20
MAX_PAGES_TO_DISCOVER == 50
STORE_TTL_MS == 3600000

\* getGrade: the first threshold the score reaches, "F" when it reaches none
getGrade(score) ==
    LET hit == { i \in 1..Len(GRADE_THRESHOLDS) : score >= GRADE_THRESHOLDS[i].min }
    IN  IF hit = {} THEN "F"
        ELSE GRADE_THRESHOLDS[CHOOSE i \in hit : \A j \in hit : i <= j].grade

\* the conditional chain every scorer writes inline
InlineGrade(score) ==
    IF score >= 90 THEN "A"
    ELSE IF score >= 80 THEN "B"
    ELSE IF score >= 70 THEN "C"
    ELSE IF score >= 60 THEN "D"
    ELSE "F"

\* A Finding: detail and page are <<>> when the code leaves them out
FindingDP(type, message, detail, page) ==
    [type |-> type, message |-> message, detail |-> detail, page |-> page]
Finding(type, message) == FindingDP(type, message, <<>>, <<>>)
FindingD(type, message, detail) == FindingDP(type, message, detail, <<>>)
FindingP(type, message, page) == FindingDP(type, message, <<>>, page)

Dimension(id, name, weight, score, grade, findings, fixable) ==
    [ id |-> id, name |-> name, weight |-> weight, score |-> score,
      grade |-> grade, findings |-> findings, fixable |-> fixable ]

\* a scorer that threw instead of returning
Threw(what) == [threw |-> what]
IsThrew(r) == "threw" \in DOMAIN r


(***************************************************************************)
(* checks/robots.ts                                                        *)
(*                                                                         *)
(* robots.txt is a sequence of trimmed lines [k, v]: k is the directive    *)
(* ("ua", "allow", "disallow", "sitemap", "comment", "blank", "other") and *)
(* v the trimmed text after the colon.                                     *)
(***************************************************************************)
Line(k, v) == [k |-> k, v |-> v]

\* the text made of the given lines ("" when there is none)
RobotsText(lines) ==
    IF lines = <<>> THEN EmptyText ELSE [kind |-> "text", lines |-> lines]

\* String.prototype.toLowerCase on the user-agent names of the model
Lower(s) ==
    CASE s = "GPTBot" -> "gptbot"
      [] s = "OAI-SearchBot" -> "oai-searchbot"
      [] s = "ChatGPT-User" -> "chatgpt-user"
      [] s = "ClaudeBot" -> "claudebot"
      [] s = "Claude-SearchBot" -> "claude-searchbot"
      [] s = "Google-Extended" -> "google-extended"
      [] s = "Gemini-Deep-Research" -> "gemini-deep-research"
      [] s = "PerplexityBot" -> "perplexitybot"
      [] s = "Applebot-Extended" -> "applebot-extended"
      [] s = "Amazonbot" -> "amazonbot"
      [] s = "Bingbot" -> "bingbot"
      [] s = "DuckAssistBot" -> "duckassistbot"
      [] s = "YouBot" -> "youbot"
      [] s = "PhindBot" -> "phindbot"
      [] s = "ExaBot" -> "exabot"
      [] s = "GPTBOT" -> "gptbot"
      [] OTHER -> s

\* the loop body of parseRobotsTxt from line i on
RECURSIVE ParseRobotsFrom(_, _, _, _, _)
ParseRobotsFrom(lines, i, rules, currentAgent, currentRules) ==
    IF i > Len(lines)
    THEN IF currentAgent # Null
         THEN Append(rules, [userAgent |-> currentAgent, rules |-> currentRules])
         ELSE rules
    ELSE LET line == lines[i] IN
         CASE line.k \in {"comment", "blank"} ->
                ParseRobotsFrom(lines, i + 1, rules, currentAgent, currentRules)
           [] line.k = "ua" /\ line.v # "" ->
                ParseRobotsFrom(lines, i + 1,
                    IF currentAgent # Null
                    THEN Append(rules, [userAgent |-> currentAgent, rules |-> currentRules])
                    ELSE rules,
                    line.v, <<>>)
           [] line.k = "allow" /\ currentAgent # Null ->
                ParseRobotsFrom(lines, i + 1, rules, currentAgent,
                    Append(currentRules, [type |-> "allow", path |-> line.v]))
           [] line.k = "disallow" /\ currentAgent # Null ->
                ParseRobotsFrom(lines, i + 1, rules, currentAgent,
                    IF line.v # ""
                    THEN Append(currentRules, [type |-> "disallow", path |-> line.v])
                    ELSE currentRules)
           [] OTHER ->
                ParseRobotsFrom(lines, i + 1, rules, currentAgent, currentRules)

parseRobotsTxt(content) == ParseRobotsFrom(content.lines, 1, <<>>, Null, <<>>)

\* rules.find(pred) for a predicate given as the set of matching indices: the
\* first match (the caller tests match # {} for `undefined`)
FindRule(rules, match) == rules[CHOOSE i \in match : \A j \in match : i <= j]

HasRule(block, type, path) ==
    \E k \in 1..Len(block.rules) :
        block.rules[k].type = type /\ block.rules[k].path = path

isCrawlerBlocked(rules, crawlerName) ==
    LET specific == { i \in 1..Len(rules) :
                        Lower(rules[i].userAgent) = Lower(crawlerName) }
        wildcard == { i \in 1..Len(rules) : rules[i].userAgent = "*" }
        wildcardBlocks ==
            wildcard # {} /\ HasRule(FindRule(rules, wildcard), "disallow", "/")
    IN  IF specific # {}
        THEN LET specificRule == FindRule(rules, specific)
                 hasDisallowAll == HasRule(specificRule, "disallow", "/")
                 hasAllowAll == HasRule(specificRule, "allow", "/")
             IN  IF hasDisallowAll /\ ~hasAllowAll THEN TRUE
                 ELSE IF hasAllowAll THEN FALSE
                 ELSE wildcardBlocks
        ELSE wildcardBlocks

\* the class checkRobots puts one roster crawler in
CrawlerClass(rules, crawler) ==
    LET hasSpecificRule ==
            \E i \in 1..Len(rules) : Lower(rules[i].userAgent) = Lower(crawler)
    IN  IF isCrawlerBlocked(rules, crawler) THEN "blocked"
        ELSE IF hasSpecificRule THEN "allowed"
        ELSE "missing"

CrawlersOfClass(rules, class) ==
    FilterIdx(AI_CRAWLERS,
              { i \in 1..Len(AI_CRAWLERS) : CrawlerClass(rules, AI_CRAWLERS[i]) = class },
              1)

\* /^Sitemap:\s*.+/im
HasSitemapDirective(robotsTxt) ==
    \E i \in 1..Len(robotsTxt.lines) :
        robotsTxt.lines[i].k = "sitemap" /\ robotsTxt.lines[i].v # ""

\* the score of checkRobots before the final clamp, for a present file
RobotsRawScore(robotsTxt) ==
    LET rules == parseRobotsTxt(robotsTxt)
        blocked == CrawlersOfClass(rules, "blocked")
        allowed == CrawlersOfClass(rules, "allowed")
    IN  40 + (IF HasSitemapDirective(robotsTxt) THEN 10 ELSE 0)
           - Len(blocked) * 3
           + (IF Len(allowed) > 0 THEN Min(50, Len(allowed) * 3) ELSE 0)

RobotsFindings(robotsTxt) ==
    LET rules == parseRobotsTxt(robotsTxt)
        blocked == CrawlersOfClass(rules, "blocked")
        allowed == CrawlersOfClass(rules, "allowed")
        missing == CrawlersOfClass(rules, "missing")
    IN  << Finding("pass", <<"robots.txt exists">>) >>
        \o (IF HasSitemapDirective(robotsTxt)
            THEN << Finding("pass", <<"Sitemap directive present">>) >>
            ELSE << Finding("warning", <<"No Sitemap directive in robots.txt">>) >>)
        \o (IF Len(blocked) > 0
            THEN << FindingD("fail", <<"AI crawlers blocked", Len(blocked)>>, blocked) >>
            ELSE <<>>)
        \o (IF Len(allowed) > 0
            THEN << FindingD("pass", <<"AI crawlers explicitly allowed", Len(allowed)>>, allowed) >>
            ELSE <<>>)
        \o (IF Len(missing) > 0 /\ Len(missing) < Len(AI_CRAWLERS)
            THEN << FindingD("warning", <<"AI crawlers not explicitly listed", Len(missing)>>, missing) >>
            ELSE <<>>)

checkRobots(robotsTxt) ==
    IF Falsy(robotsTxt)
    THEN Dimension("robots", "robots.txt", 20, 0, "F",
             << FindingD("fail", <<"No robots.txt found">>,
                         <<"Create a robots.txt file that explicitly allows AI crawlers">>) >>,
             TRUE)
    ELSE LET score == Clamp(RobotsRawScore(robotsTxt))
         IN  Dimension("robots", "robots.txt", 20, score, InlineGrade(score),
                       RobotsFindings(robotsTxt), TRUE)


(***************************************************************************)
(* parsers.ts: the facts parseHTML extracts are the fields of a page.      *)
(*   url, path      token sequences (url = origin token, then the path)    *)
(*   jsonLd         the parsed JSON-LD blocks: [kind |-> "null"] for a     *)
(*                  block that is JSON null, else an object with context   *)
(*                  (has @context), types (<<>>: no @type, one element: a  *)
(*                  string, more: an array), sameAsEmpty, logo, author,    *)
(*                  datePublished                                          *)
(*   title          "" | "Untitled" | "short" (< 5 chars) | "ok"           *)
(*   desc           "" | "blank" | "short" (< 50) | "ok" | "long" (> 160)  *)
(*   tags           the labels among canonical and og:* with a value       *)
(*   headings       the heading levels in document order                   *)
(*   landmarks      the elements among main, nav, header, footer present   *)
(*   totalImgs, imgsWithoutAlt, hasArticleOrSection, bodyTextLength        *)
(*   isSPA, hasSSR, hasNoscript      the regular expressions of rendering  *)
(*   hasSummary, hasFaq, avgWords (0: no paragraph over 20 characters),    *)
(*   firstParaDirect, listCount, hasCitations   those of checkAeoContent   *)
(***************************************************************************)
Origin == "O"

\* new URL(url).pathname
Pathname(url) == IF Len(url) <= 1 THEN <<"/">> ELSE Tail(url)

\* the segments of a path
Segments(path) == FilterIdx(path, { i \in 1..Len(path) : path[i] # "/" }, 1)

\* the keywords of guessPageType a path segment of the model contains
SegKeywords(seg) ==
    CASE seg = "about" -> {"about"}
      [] seg = "services" -> {"service"}
      [] seg = "products" -> {"product"}
      [] seg = "blog" -> {"blog"}
      [] seg = "post" -> {"post"}
      [] seg = "article" -> {"article"}
      [] seg = "contact" -> {"contact"}
      [] seg = "faq" -> {"faq"}
      [] OTHER -> {}

(***************************************************************************)
(* checks/schema.ts                                                        *)
(***************************************************************************)
EXPECTED_SCHEMAS ==
    [ home |-> <<"Organization", "WebSite">>,
      about |-> <<"Organization", "BreadcrumbList">>,
      services |-> <<"Service", "BreadcrumbList">>,
      products |-> <<"Product", "BreadcrumbList">>,
      blog |-> <<"CollectionPage", "BreadcrumbList">>,
      post |-> <<"BlogPosting", "Article", "BreadcrumbList">>,
      contact |-> <<"ContactPage", "BreadcrumbList">>,
      faq |-> <<"FAQPage", "BreadcrumbList">> ]

guessPageType(url) ==
    LET path == Pathname(url)
        segs == Segments(path)
        n == Len(segs)
        HasKw(kw) == \E i \in 1..n : kw \in SegKeywords(segs[i])
        InnerKw(kw) == \E i \in 1..(n - 1) : kw \in SegKeywords(segs[i])
    IN  IF path = <<"/">> \/ path = <<>> THEN "home"
        ELSE IF HasKw("about") THEN "about"
        ELSE IF HasKw("service") THEN "services"
        ELSE IF HasKw("product") THEN "products"
        ELSE IF n > 0 /\ "blog" \in SegKeywords(segs[n]) THEN "blog"
        ELSE IF InnerKw("blog") \/ InnerKw("post") \/ HasKw("article") THEN "post"
        ELSE IF HasKw("contact") THEN "contact"
        ELSE IF HasKw("faq") THEN "faq"
        ELSE "other"

IsNullItem(item) == item.kind = "null"

getSchemaTypes(jsonLd) == FlatSeq([i \in 1..Len(jsonLd) |-> jsonLd[i].types])

SeqHas(s, x) == \E i \in 1..Len(s) : s[i] = x

\* the findings of one JSON-LD item
SchemaItemFindings(item, path) ==
    (IF ~item.context \/ item.types = <<>>
     THEN << FindingP("warning", <<"JSON-LD missing @context or @type">>, path) >>
     ELSE <<>>)
    \o (IF item.sameAsEmpty
        THEN << FindingP("warning", <<"Empty sameAs array">>, path) >>
        ELSE <<>>)
    \o (IF item.types = <<"Organization">> /\ ~item.logo
        THEN << FindingP("warning", <<"Organization schema missing logo">>, path) >>
        ELSE <<>>)
    \o (IF item.types \in {<<"BlogPosting">>, <<"Article">>} /\ ~item.author
        THEN << FindingP("warning", <<"Article missing author">>, path) >>
        ELSE <<>>)
    \o (IF item.types \in {<<"BlogPosting">>, <<"Article">>} /\ ~item.datePublished
        THEN << FindingP("warning", <<"Article missing datePublished">>, path) >>
        ELSE <<>>)

SchemaPageHasExpected(page) ==
    LET pageType == guessPageType(page.url)
        types == getSchemaTypes(page.jsonLd)
    IN  /\ pageType \in DOMAIN EXPECTED_SCHEMAS
        /\ \E k \in 1..Len(EXPECTED_SCHEMAS[pageType]) :
               SeqHas(types, EXPECTED_SCHEMAS[pageType][k])

\* the clamped score one page adds to totalScore
SchemaPageScore(page) ==
    LET types == getSchemaTypes(page.jsonLd)
        pageType == guessPageType(page.url)
        invalid == Cardinality({ i \in 1..Len(page.jsonLd) :
                        ~page.jsonLd[i].context \/ page.jsonLd[i].types = <<>> })
    IN  IF page.jsonLd = <<>> THEN 0
        ELSE Clamp(60 - 10 * invalid
                   + (IF SchemaPageHasExpected(page) THEN 20 ELSE 0)
                   - (IF pageType # "home" /\ ~SeqHas(types, "BreadcrumbList") THEN 5 ELSE 0)
                   + (IF SeqHas(types, "WebPage") THEN 10 ELSE 0))

SchemaPageFindings(page) ==
    LET types == getSchemaTypes(page.jsonLd)
        pageType == guessPageType(page.url)
    IN  IF page.jsonLd = <<>>
        THEN << FindingP("fail", <<"No JSON-LD found">>, page.path) >>
        ELSE FlatSeq([i \in 1..Len(page.jsonLd) |->
                          SchemaItemFindings(page.jsonLd[i], page.path)])
             \o (IF pageType \in DOMAIN EXPECTED_SCHEMAS
                 THEN IF SchemaPageHasExpected(page)
                      THEN << FindingP("pass", <<"Has expected schema types", types>>, page.path) >>
                      ELSE << FindingP("warning",
                                  <<"Expected other schema types", EXPECTED_SCHEMAS[pageType], types>>,
                                  page.path) >>
                 ELSE <<>>)
             \o (IF pageType # "home" /\ ~SeqHas(types, "BreadcrumbList")
                 THEN << FindingP("warning", <<"Missing BreadcrumbList schema">>, page.path) >>
                 ELSE <<>>)

\* Math.round(totalScore / pages.length), 0 for no page
AverageScore(pageScores) ==
    IF Len(pageScores) > 0 THEN RoundDiv(SumSeq(pageScores), Len(pageScores)) ELSE 0

checkSchema(pages) ==
    IF \E i \in 1..Len(pages) : \E k \in 1..Len(pages[i].jsonLd) :
           IsNullItem(pages[i].jsonLd[k])
    THEN \* getSchemaTypes reads item["@type"] of null
         Threw("TypeError")
    ELSE LET score == AverageScore([i \in 1..Len(pages) |-> SchemaPageScore(pages[i])])
             pagesWithSchema == Cardinality({ i \in 1..Len(pages) : pages[i].jsonLd # <<>> })
             first ==
                 IF pagesWithSchema = 0
                 THEN Finding("fail", <<"No JSON-LD structured data found on any page">>)
                 ELSE IF pagesWithSchema < Len(pages)
                 THEN Finding("warning", <<"JSON-LD found on some pages", pagesWithSchema, Len(pages)>>)
                 ELSE Finding("pass", <<"JSON-LD found on all pages", Len(pages)>>)
         IN  Dimension("schema", "Schema.org JSON-LD", 25, score, InlineGrade(score),
                 <<first>> \o FlatSeq([i \in 1..Len(pages) |-> SchemaPageFindings(pages[i])]),
                 TRUE)

(***************************************************************************)
(* checks/meta-tags.ts                                                     *)
(***************************************************************************)
REQUIRED_TAGS ==
    << "Title tag", "Meta description", "Canonical link", "og:title",
       "og:description", "og:url", "og:type", "og:image" >>

\* value && typeof value === "string" && value.trim().length > 0
TagPresent(page, label) ==
    CASE label = "Title tag" -> page.title # ""
      [] label = "Meta description" -> page.desc \notin {"", "blank"}
      [] OTHER -> label \in page.tags

MetaMissing(page) ==
    FilterIdx(REQUIRED_TAGS, { i \in 1..Len(REQUIRED_TAGS) : ~TagPresent(page, REQUIRED_TAGS[i]) }, 1)

DescTooShort(page) == page.desc \in {"blank", "short"}
DescTooLong(page) == page.desc = "long"
TitleGeneric(page) == page.title \in {"Untitled", "short"}

\* twice pageScore, which moves in steps of 12.5
MetaPageScore2(page) ==
    25 * (Len(REQUIRED_TAGS) - Len(MetaMissing(page)))
    - (IF DescTooShort(page) THEN 10 ELSE IF DescTooLong(page) THEN 6 ELSE 0)
    - (IF TitleGeneric(page) THEN 10 ELSE 0)

\* Math.min(100, Math.max(0, Math.round(pageScore)))
MetaPageScore(page) == Clamp(RoundDiv(MetaPageScore2(page), 2))

MetaPageFindings(page) ==
    (IF DescTooShort(page)
     THEN << FindingP("warning", <<"Meta description too short">>, page.path) >>
     ELSE IF DescTooLong(page)
     THEN << FindingP("warning", <<"Meta description too long">>, page.path) >>
     ELSE <<>>)
    \o (IF TitleGeneric(page)
        THEN << FindingP("warning", <<"Generic or short title", page.title>>, page.path) >>
        ELSE <<>>)
    \o (IF MetaMissing(page) = <<>>
        THEN << FindingP("pass", <<"All 8 meta tags present">>, page.path) >>
        ELSE << FindingP(IF Len(MetaMissing(page)) > 4 THEN "fail" ELSE "warning",
                         <<"Missing", MetaMissing(page)>>, page.path) >>)

checkMetaTags(pages) ==
    LET score == AverageScore([i \in 1..Len(pages) |-> MetaPageScore(pages[i])])
    IN  Dimension("meta", "Meta & OG Tags", 10, score, InlineGrade(score),
            FlatSeq([i \in 1..Len(pages) |-> MetaPageFindings(pages[i])]), TRUE)

(***************************************************************************)
(* checkSitemap.  A sitemap.xml is NullText, EmptyText or                  *)
(*   [kind |-> "text", hasNamespace, locs (the <loc> urls), hasLastmod]    *)
(***************************************************************************)
SitemapCovers(sitemapUrls, p) ==
    \E k \in 1..Len(sitemapUrls) :
        \/ Includes(sitemapUrls[k], p.path)
        \/ Includes(p.url, sitemapUrls[k])
        \/ sitemapUrls[k] = p.url

SitemapCovered(sitemapXml, pages) ==
    Cardinality({ i \in 1..Len(pages) : SitemapCovers(sitemapXml.locs, pages[i]) })

\* robotsTxt && /sitemap/i.test(robotsTxt)
MentionsSitemap(robotsTxt) ==
    /\ ~Falsy(robotsTxt)
    /\ \E i \in 1..Len(robotsTxt.lines) :
           \/ robotsTxt.lines[i].k = "sitemap"
           \/ robotsTxt.lines[i].v = "/sitemap.xml"

SitemapRawScore(sitemapXml, robotsTxt, pages) ==
    30
    + (IF sitemapXml.hasNamespace THEN 15 ELSE 0)
    + (IF sitemapXml.locs = <<>> THEN 0
       ELSE 15 + (IF pages = <<>> THEN 0
                  ELSE IF 5 * SitemapCovered(sitemapXml, pages) >= 4 * Len(pages)
                  THEN 15 ELSE 5))
    + (IF sitemapXml.hasLastmod THEN 10 ELSE 0)
    + (IF MentionsSitemap(robotsTxt) THEN 15 ELSE 0)

SitemapFindings(sitemapXml, robotsTxt, pages) ==
    << Finding("pass", <<"sitemap.xml exists">>) >>
    \o << IF sitemapXml.hasNamespace
          THEN Finding("pass", <<"Valid XML namespace">>)
          ELSE Finding("warning", <<"Missing standard sitemap namespace">>) >>
    \o (IF sitemapXml.locs = <<>>
        THEN << Finding("fail", <<"No URLs found in sitemap">>) >>
        ELSE << Finding("pass", <<"URLs in sitemap", Len(sitemapXml.locs)>>) >>
             \o (IF pages = <<>> THEN <<>>
                 ELSE IF 5 * SitemapCovered(sitemapXml, pages) >= 4 * Len(pages)
                 THEN << Finding("pass", <<"Good page coverage",
                                           SitemapCovered(sitemapXml, pages), Len(pages)>>) >>
                 ELSE << Finding("warning", <<"Partial coverage",
                                              SitemapCovered(sitemapXml, pages), Len(pages)>>) >>))
    \o << IF sitemapXml.hasLastmod
          THEN Finding("pass", <<"lastmod dates present">>)
          ELSE Finding("warning", <<"No lastmod dates in sitemap">>) >>
    \o << IF MentionsSitemap(robotsTxt)
          THEN Finding("pass", <<"Referenced in robots.txt">>)
          ELSE Finding("warning", <<"Not referenced in robots.txt">>) >>

checkSitemap(sitemapXml, robotsTxt, pages) ==
    IF Falsy(sitemapXml)
    THEN Dimension("sitemap", "sitemap.xml", 5, 0, "F",
             << Finding("fail", <<"No sitemap.xml found">>) >>, TRUE)
    ELSE LET score == Clamp(SitemapRawScore(sitemapXml, robotsTxt, pages))
         IN  Dimension("sitemap", "sitemap.xml", 5, score, InlineGrade(score),
                 SitemapFindings(sitemapXml, robotsTxt, pages), TRUE)

(***************************************************************************)
(* checks/llms-txt.ts.  An llms.txt is NullText, EmptyText or              *)
(*   [kind |-> "text", hasH1, hasBlockquote, h2Sections (their number),    *)
(*    links (the urls of the "- [..](url)" lines)]                         *)
(* and an llms-full.txt is NullText, EmptyText or [kind |-> "text"].       *)
(***************************************************************************)
LlmsCovers(linkedUrls, p) ==
    \E k \in 1..Len(linkedUrls) :
        Includes(p.url, linkedUrls[k]) \/ Includes(linkedUrls[k], p.path)

LlmsCovered(llmsTxt, pages) ==
    Cardinality({ i \in 1..Len(pages) : LlmsCovers(llmsTxt.links, pages[i]) })

LlmsRawScore(llmsTxt, llmsFullTxt, pages) ==
    30
    + (IF llmsTxt.hasH1 THEN 10 ELSE 0)
    + (IF llmsTxt.hasBlockquote THEN 10 ELSE 0)
    + (IF llmsTxt.h2Sections > 0 THEN 10 ELSE 0)
    + (IF llmsTxt.links # <<>> THEN 10 ELSE 0)
    + (IF pages = <<>> THEN 0
       ELSE IF 5 * LlmsCovered(llmsTxt, pages) >= 4 * Len(pages) THEN 15
       ELSE IF 2 * LlmsCovered(llmsTxt, pages) >= Len(pages) THEN 8
       ELSE 0)
    + (IF ~Falsy(llmsFullTxt) THEN 15 ELSE 0)

LlmsFindings(llmsTxt, llmsFullTxt, pages) ==
    << Finding("pass", <<"llms.txt exists">>) >>
    \o << IF llmsTxt.hasH1
          THEN Finding("pass", <<"Has H1 title">>)
          ELSE Finding("warning", <<"Missing H1 title at top">>) >>
    \o << IF llmsTxt.hasBlockquote
          THEN Finding("pass", <<"Has summary blockquote">>)
          ELSE Finding("warning", <<"Missing summary blockquote after H1">>) >>
    \o << IF llmsTxt.h2Sections > 0
          THEN Finding("pass", <<"Has sections", llmsTxt.h2Sections>>)
          ELSE Finding("warning", <<"No H2 sections found">>) >>
    \o << IF llmsTxt.links # <<>>
          THEN Finding("pass", <<"linked entries", Len(llmsTxt.links)>>)
          ELSE Finding("warning", <<"No links in expected format">>) >>
    \o (IF pages = <<>> THEN <<>>
        ELSE IF 5 * LlmsCovered(llmsTxt, pages) >= 4 * Len(pages)
        THEN << Finding("pass", <<"Good page coverage", LlmsCovered(llmsTxt, pages), Len(pages)>>) >>
        ELSE IF 2 * LlmsCovered(llmsTxt, pages) >= Len(pages)
        THEN << Finding("warning", <<"Partial page coverage", LlmsCovered(llmsTxt, pages), Len(pages)>>) >>
        ELSE << Finding("fail", <<"Low page coverage", LlmsCovered(llmsTxt, pages), Len(pages)>>) >>)
    \o << IF ~Falsy(llmsFullTxt)
          THEN Finding("pass", <<"llms-full.txt exists">>)
          ELSE Finding("warning", <<"No llms-full.txt found">>) >>

checkLlmsTxt(llmsTxt, llmsFullTxt, pages) ==
    IF Falsy(llmsTxt)
    THEN Dimension("llmsTxt", "llms.txt", 15, 0, "F",
             << FindingD("fail", <<"No llms.txt found">>,
                         <<"Create an llms.txt file following the llmstxt.org spec">>) >>, TRUE)
    ELSE LET score == Clamp(LlmsRawScore(llmsTxt, llmsFullTxt, pages))
         IN  Dimension("llmsTxt", "llms.txt", 15, score, InlineGrade(score),
                 LlmsFindings(llmsTxt, llmsFullTxt, pages), TRUE)

(***************************************************************************)
(* ai-analysis.ts: checkAeoContent, the deterministic AEO scorer           *)
(***************************************************************************)
HasParagraphs(page) == page.avgWords > 0

\* hasSummary || (paragraphTexts.length > 0 && first paragraph <= 3 splits)
hasDirectAnswer(page) ==
    page.hasSummary \/ (HasParagraphs(page) /\ page.firstParaDirect)

AeoPageScore(page) ==
    Clamp( (IF page.hasSummary THEN 20 ELSE 0)
         + (IF page.hasFaq THEN 15 ELSE 0)
         + (IF ~HasParagraphs(page) THEN 0
            ELSE IF page.avgWords <= 50 THEN 20
            ELSE IF page.avgWords <= 100 THEN 10 ELSE 0)
         + (IF page.listCount > 0 THEN 15 ELSE 0)
         + (IF hasDirectAnswer(page) THEN 15 ELSE 0)
         + (IF page.hasCitations THEN 15 ELSE 0) )

AeoPageFindings(page) ==
    << IF page.hasSummary
       THEN FindingP("pass", <<"Has summary/TL;DR section">>, page.path)
       ELSE FindingDP("warning", <<"No TL;DR or summary block found near page top">>,
                      <<"Add a 2-sentence summary after the H1">>, page.path) >>
    \o (IF page.hasFaq
        THEN << FindingP("pass", <<"FAQ section detected">>, page.path) >>
        ELSE <<>>)
    \o (IF ~HasParagraphs(page) THEN <<>>
        ELSE IF page.avgWords <= 50
        THEN << FindingP("pass", <<"Short paragraphs", page.avgWords>>, page.path) >>
        ELSE IF page.avgWords <= 100
        THEN << FindingDP("warning", <<"Medium paragraph length", page.avgWords>>,
                          <<"Break into shorter paragraphs for better AI extraction">>,
                          page.path) >>
        ELSE << FindingDP("fail", <<"Long paragraphs", page.avgWords>>,
                          <<"Dense text walls reduce AI answer extraction quality">>,
                          page.path) >>)
    \o (IF page.listCount > 0
        THEN << FindingP("pass", <<"lists for scannable content", page.listCount>>, page.path) >>
        ELSE <<>>)
    \o (IF page.hasCitations
        THEN << FindingP("pass", <<"Citations or references detected">>, page.path) >>
        ELSE <<>>)

checkAeoContent(pages) ==
    LET score == AverageScore([i \in 1..Len(pages) |-> AeoPageScore(pages[i])])
    IN  Dimension("aeo", "AEO Content Quality", 15, score, InlineGrade(score),
            FlatSeq([i \in 1..Len(pages) |-> AeoPageFindings(pages[i])]), FALSE)

(***************************************************************************)
(* checkSemantic                                                           *)
(***************************************************************************)
SemanticElements == << "main", "nav", "header", "footer" >>

\* info.h1s.length
H1Count(page) == Cardinality({ i \in 1..Len(page.headings) : page.headings[i] = 1 })

\* the indices where a heading level is skipped
HeadingSkips(page) ==
    { i \in 2..Len(page.headings) : page.headings[i] > page.headings[i - 1] + 1 }

FirstSkip(page) == CHOOSE i \in HeadingSkips(page) : \A j \in HeadingSkips(page) : i <= j

MissingSemantic(page) ==
    FilterIdx(SemanticElements,
              { i \in 1..Len(SemanticElements) : SemanticElements[i] \notin page.landmarks }, 1)

PresentSemantic(page) == Len(SemanticElements) - Len(MissingSemantic(page))

SemanticPageScore(page) ==
    Clamp( (IF H1Count(page) = 1 THEN 25 ELSE IF H1Count(page) = 0 THEN 0 ELSE 10)
         + (IF HeadingSkips(page) = {} /\ Len(page.headings) > 1 THEN 20 ELSE 0)
         + (IF PresentSemantic(page) = Len(SemanticElements) THEN 30
            ELSE PresentSemantic(page) * 7)
         + (IF page.totalImgs > 0
            THEN IF page.imgsWithoutAlt = 0 THEN 15
                 ELSE RoundDiv(15 * (page.totalImgs - page.imgsWithoutAlt), page.totalImgs)
            ELSE 15)
         + (IF page.hasArticleOrSection THEN 10 ELSE 0) )

SemanticPageFindings(page) ==
    << IF H1Count(page) = 1 THEN FindingP("pass", <<"Single H1 tag">>, page.path)
       ELSE IF H1Count(page) = 0 THEN FindingP("fail", <<"No H1 tag found">>, page.path)
       ELSE FindingP("warning", <<"Multiple H1 tags", H1Count(page)>>, page.path) >>
    \o (IF HeadingSkips(page) # {}
        THEN << FindingP("warning",
                    <<"Skipped heading level", page.headings[FirstSkip(page) - 1],
                      page.headings[FirstSkip(page)]>>, page.path) >>
        ELSE IF Len(page.headings) > 1
        THEN << FindingP("pass", <<"Correct heading hierarchy">>, page.path) >>
        ELSE <<>>)
    \o << IF PresentSemantic(page) = Len(SemanticElements)
          THEN FindingP("pass", <<"All semantic landmarks present">>, page.path)
          ELSE IF PresentSemantic(page) > 0
          THEN FindingP("warning", <<"Missing semantic elements", MissingSemantic(page)>>, page.path)
          ELSE FindingP("fail", <<"No semantic HTML landmarks found">>, page.path) >>
    \o (IF page.totalImgs > 0
        THEN IF page.imgsWithoutAlt = 0
             THEN << FindingP("pass", <<"All images have alt text", page.totalImgs>>, page.path) >>
             ELSE << FindingP("warning", <<"images missing alt text", page.imgsWithoutAlt,
                                           page.totalImgs>>, page.path) >>
        ELSE <<>>)

checkSemantic(pages) ==
    LET score == AverageScore([i \in 1..Len(pages) |-> SemanticPageScore(pages[i])])
    IN  Dimension("semantic", "Semantic HTML", 5, score, InlineGrade(score),
            FlatSeq([i \in 1..Len(pages) |-> SemanticPageFindings(pages[i])]), FALSE)

(***************************************************************************)
(* checks/rendering.ts                                                     *)
(***************************************************************************)
\* isSPA && info.bodyTextLength < 200
SpaCapped(page) == page.isSPA /\ page.bodyTextLength < 200

RenderingPageScore(page) ==
    LET text == IF page.bodyTextLength > 500 THEN 40
                ELSE IF page.bodyTextLength > 100 THEN 25 ELSE 0
        capped == IF SpaCapped(page) THEN Min(text, 20) ELSE text
    IN  Clamp( capped
             + (IF page.hasSSR THEN 30 ELSE 0)
             + (IF page.hasNoscript THEN 10 ELSE 0)
             + (IF Len(page.headings) > 0 THEN 20 ELSE 0) )

RenderingPageFindings(page) ==
    << IF page.bodyTextLength > 500
       THEN FindingP("pass", <<"Rich text content", page.bodyTextLength>>, page.path)
       ELSE IF page.bodyTextLength > 100
       THEN FindingP("warning", <<"Limited text content", page.bodyTextLength>>, page.path)
       ELSE FindingDP("fail", <<"Very little text in HTML source", page.bodyTextLength>>,
                <<"Content may be rendered by JavaScript and invisible to AI crawlers">>,
                page.path) >>
    \o (IF SpaCapped(page)
        THEN << FindingDP("fail", <<"SPA detected with minimal pre-rendered content">>,
                          <<"Consider SSR/SSG for AI crawler visibility">>, page.path) >>
        ELSE <<>>)
    \o (IF page.hasSSR
        THEN << FindingP("pass", <<"SSR/SSG framework detected (content pre-rendered)">>,
                         page.path) >>
        ELSE <<>>)
    \o (IF page.hasNoscript
        THEN << FindingP("pass", <<"Noscript fallback content present">>, page.path) >>
        ELSE <<>>)

checkRendering(pages) ==
    LET score == AverageScore([i \in 1..Len(pages) |-> RenderingPageScore(pages[i])])
    IN  Dimension("rendering", "Rendering", 5, score, InlineGrade(score),
            FlatSeq([i \in 1..Len(pages) |-> RenderingPageFindings(pages[i])]), FALSE)

(***************************************************************************)
(* The inputs of the scorers                                               *)
(***************************************************************************)
MaxPages == 2
MaxItems == 2
MaxRobotsLines == 4
MaxHeadings == 3
MaxImgs == 2

\* the sequences over S of length at most n
SeqsUpTo(S, n) == UNION { [1..k -> S] : k \in 0..n }

NullItem ==
    [ kind |-> "null", context |-> FALSE, types |-> <<>>, sameAsEmpty |-> FALSE,
      logo |-> FALSE, author |-> FALSE, datePublished |-> FALSE ]

Obj(context, types, sameAsEmpty, logo, author, datePublished) ==
    [ kind |-> "object", context |-> context, types |-> types,
      sameAsEmpty |-> sameAsEmpty, logo |-> logo, author |-> author,
      datePublished |-> datePublished ]

ItemSet ==
    { NullItem,
      Obj(TRUE, <<"Organization">>, TRUE, FALSE, FALSE, FALSE),
      Obj(FALSE, <<"WebPage">>, FALSE, FALSE, FALSE, FALSE),
      Obj(TRUE, <<>>, FALSE, FALSE, FALSE, FALSE),
      Obj(TRUE, <<"BlogPosting">>, FALSE, FALSE, TRUE, FALSE),
      Obj(TRUE, <<"BreadcrumbList">>, FALSE, FALSE, FALSE, FALSE) }

PathSet ==
    { <<"/">>, <<"/", "about">>, <<"/", "blog">>, <<"/", "blog", "/", "post">> }

\* the url crawlSite and parseUploadedZip give the page of a path
UrlOf(path) == IF path = <<"/">> THEN <<Origin>> ELSE <<Origin>> \o path

OgTags == { "Canonical link", "og:title", "og:description", "og:url", "og:type", "og:image" }

\* a page every scorer rates highly
GoodPage(path) ==
    [ url |-> UrlOf(path), path |-> path,
      jsonLd |-> << Obj(TRUE, <<"Organization">>, FALSE, TRUE, FALSE, FALSE),
                    Obj(TRUE, <<"BreadcrumbList">>, FALSE, FALSE, FALSE, FALSE),
                    Obj(TRUE, <<"WebPage">>, FALSE, FALSE, FALSE, FALSE) >>,
      title |-> "ok", desc |-> "ok", tags |-> OgTags,
      headings |-> <<1, 2>>, landmarks |-> {"main", "nav", "header", "footer"},
      totalImgs |-> 1, imgsWithoutAlt |-> 0, hasArticleOrSection |-> TRUE,
      bodyTextLength |-> 501, isSPA |-> FALSE, hasSSR |-> TRUE, hasNoscript |-> TRUE,
      hasSummary |-> TRUE, hasFaq |-> TRUE, avgWords |-> 30, firstParaDirect |-> TRUE,
      listCount |-> 2, hasCitations |-> TRUE ]

\* a page with nothing the scorers look for
BarePage(path) ==
    [ url |-> UrlOf(path), path |-> path, jsonLd |-> <<>>,
      title |-> "", desc |-> "", tags |-> {},
      headings |-> <<>>, landmarks |-> {},
      totalImgs |-> 0, imgsWithoutAlt |-> 0, hasArticleOrSection |-> FALSE,
      bodyTextLength |-> 0, isSPA |-> FALSE, hasSSR |-> FALSE, hasNoscript |-> FALSE,
      hasSummary |-> FALSE, hasFaq |-> FALSE, avgWords |-> 0, firstParaDirect |-> FALSE,
      listCount |-> 0, hasCitations |-> FALSE ]

\* a middling page
PlainPage(path) ==
    [ url |-> UrlOf(path), path |-> path,
      jsonLd |-> << Obj(TRUE, <<"Organization">>, FALSE, FALSE, FALSE, FALSE) >>,
      title |-> "ok", desc |-> "short", tags |-> {"Canonical link", "og:title"},
      headings |-> <<1, 3>>, landmarks |-> {"main", "nav"},
      totalImgs |-> 2, imgsWithoutAlt |-> 1, hasArticleOrSection |-> FALSE,
      bodyTextLength |-> 199, isSPA |-> TRUE, hasSSR |-> FALSE, hasNoscript |-> FALSE,
      hasSummary |-> FALSE, hasFaq |-> FALSE, avgWords |-> 51, firstParaDirect |-> TRUE,
      listCount |-> 1, hasCitations |-> FALSE ]

\* the pages that differ from a plain page in what one scorer reads
SchemaPages ==
    { [PlainPage(path) EXCEPT !.jsonLd = j] :
        path \in PathSet, j \in SeqsUpTo(ItemSet, MaxItems) }

MetaPages ==
    { [PlainPage(<<"/">>) EXCEPT !.title = t, !.desc = d, !.tags = g] :
        t \in {"", "Untitled", "short", "ok"},
        d \in {"", "blank", "short", "ok", "long"},
        g \in { {}, {"og:title"}, OgTags \ {"og:image"}, OgTags } }

SemanticPages ==
    { [PlainPage(<<"/">>) EXCEPT !.headings = h] : h \in SeqsUpTo(1..3, MaxHeadings) }
    \cup
    { [PlainPage(<<"/">>) EXCEPT !.landmarks = l, !.hasArticleOrSection = a] :
        l \in { {}, {"main"}, {"nav", "footer"}, {"main", "nav", "header", "footer"} },
        a \in BOOLEAN }
    \cup
    { [PlainPage(<<"/">>) EXCEPT !.totalImgs = t, !.imgsWithoutAlt = w] :
        t \in 0..MaxImgs, w \in 0..MaxImgs }

RenderingPages ==
    { [PlainPage(<<"/">>) EXCEPT !.bodyTextLength = b, !.isSPA = spa, !.hasSSR = ssr,
                                !.hasNoscript = ns, !.headings = h] :
        b \in {0, 100, 101, 199, 200, 500, 501}, spa \in BOOLEAN, ssr \in BOOLEAN,
        ns \in BOOLEAN, h \in {<<>>, <<1>>} }

AeoPages ==
    { [PlainPage(<<"/">>) EXCEPT !.hasSummary = su, !.hasFaq = fq, !.avgWords = aw,
                                !.firstParaDirect = fd, !.listCount = lc,
                                !.hasCitations = ci] :
        su \in BOOLEAN, fq \in BOOLEAN, aw \in {0, 30, 50, 51, 100, 101},
        fd \in BOOLEAN, lc \in {0, 3}, ci \in BOOLEAN }

PageSet == SchemaPages \cup MetaPages \cup SemanticPages \cup RenderingPages \cup AeoPages

\* a page occurs in the model only if its counts are consistent
PageOk(p) == p.imgsWithoutAlt <= p.totalImgs

FillerPages == { GoodPage(<<"/", "about">>), BarePage(<<"/", "pricing">>) }

\* the page lists: one page of PageSet among copies of a filler page
PageLists ==
    { <<>> } \cup
    { [i \in 1..t[1] |-> IF i = t[2] THEN t[3] ELSE t[4]] :
        t \in { u \in (1..MaxPages) \X (1..MaxPages) \X { q \in PageSet : PageOk(q) }
                      \X FillerPages : u[2] <= u[1] } }

\* the lines a robots.txt of the model is made of
RobotsLines ==
    { Line("ua", "GPTBot"), Line("ua", "GPTBOT"), Line("ua", "ClaudeBot"),
      Line("ua", "*"), Line("disallow", "/"), Line("disallow", "/tmp"),
      Line("allow", "/") }

RobotsTexts ==
    { NullText } \cup { RobotsText(l) : l \in SeqsUpTo(RobotsLines, MaxRobotsLines) }

LinkSet == { <<Origin>>, <<Origin, "/", "about">>, <<"/", "pricing">> }

LlmsTexts ==
    { NullText, EmptyText } \cup
    { [kind |-> "text", hasH1 |-> h1, hasBlockquote |-> bq, h2Sections |-> h2, links |-> l] :
        h1 \in BOOLEAN, bq \in BOOLEAN, h2 \in {0, 2}, l \in SeqsUpTo(LinkSet, 2) }

LlmsFullTexts == { NullText, EmptyText, [kind |-> "text"] }

SitemapTexts ==
    { NullText, EmptyText } \cup
    { [kind |-> "text", hasNamespace |-> ns, locs |-> l, hasLastmod |-> lm] :
        ns \in BOOLEAN, lm \in BOOLEAN, l \in SeqsUpTo(LinkSet, 2) }

SomePageLists ==
    { <<>>, << GoodPage(<<"/">>) >>,
      << PlainPage(<<"/">>), GoodPage(<<"/", "about">>), BarePage(<<"/", "pricing">>) >>,
      [i \in 1..5 |-> IF i = 1 THEN PlainPage(<<"/">>) ELSE BarePage(<<"/", "pricing">>)] }

\* what a crawl hands to the scorers
ScorerInput(pages, robotsTxt, llmsTxt, llmsFullTxt, sitemapXml) ==
    [ pages |-> pages, robotsTxt |-> robotsTxt, llmsTxt |-> llmsTxt,
      llmsFullTxt |-> llmsFullTxt, sitemapXml |-> sitemapXml ]

\* the inputs: each varies what one scorer reads
ScorerInputs ==
    { ScorerInput(p, NullText, NullText, NullText, NullText) : p \in PageLists }
    \cup
    { ScorerInput(<<>>, r, NullText, NullText, NullText) : r \in RobotsTexts }
    \cup
    { ScorerInput(p, NullText, l, f, NullText) :
        p \in SomePageLists, l \in LlmsTexts, f \in LlmsFullTexts }
    \cup
    { ScorerInput(p, r, NullText, NullText, m) :
        p \in SomePageLists, m \in SitemapTexts,
        r \in { NullText, RobotsText(<< Line("sitemap", "/sitemap.xml") >>),
                RobotsText(<< Line("ua", "*"), Line("disallow", "/") >>) } }

(***************************************************************************)
(* ai-analysis.ts: the AI sub-tasks.  What the provider answers is the     *)
(* outcome of a sub-task:                                                  *)
(*   "ok"           a response holding a JSON object (for the AEO task     *)
(*                  with its score and findings, for the llms.txt task     *)
(*                  with or without each of its two keys, for the JSON-LD  *)
(*                  task with or without the files key); for the report a  *)
(*                  text of `length` characters                            *)
(*   "unparseable"  a response without a JSON object                       *)
(*   "error"        an exception caught inside the sub-task (provider      *)
(*                  error, timeout, JSON.parse failure)                    *)
(*   "rejected"     the promise rejected (the branch Promise.allSettled    *)
(*                  unwraps)                                               *)
(*   "pending"      not settled yet                                        *)
(***************************************************************************)
Outcome(kind) ==
    [ kind |-> kind, score |-> 0, findings |-> <<>>, hasLlmsTxt |-> FALSE,
      hasLlmsFullTxt |-> FALSE, hasFiles |-> FALSE, length |-> 0 ]

Pending == Outcome("pending")

\* the findings an AI response carries
AiFindingLists ==
    { <<>>,
      << [type |-> "warning", message |-> <<"AI: content lacks direct answers">>],
         [type |-> "pass", message |-> <<"AI: clear structure">>] >> }

AeoOutcomes ==
    { [Outcome("ok") EXCEPT !.score = sc, !.findings = f] :
        sc \in {0 - 20, 0, 55, 100, 150}, f \in AiFindingLists }
    \cup { Outcome("unparseable"), Outcome("error"), Outcome("rejected") }

LlmsOutcomes ==
    { [Outcome("ok") EXCEPT !.hasLlmsTxt = a, !.hasLlmsFullTxt = b] :
        a \in BOOLEAN, b \in BOOLEAN }
    \cup { Outcome("unparseable"), Outcome("error"), Outcome("rejected") }

SchemaOutcomes ==
    { [Outcome("ok") EXCEPT !.hasFiles = a] : a \in BOOLEAN }
    \cup { Outcome("unparseable"), Outcome("error"), Outcome("rejected") }

\* text.length > 100
MinReportLength == 100

\* the lengths of the text the report call answers with (0: no text block)
ReportLengths == { 0, MinReportLength, MinReportLength + 1, 40 * MinReportLength }

ReportOutcomes ==
    { [Outcome("ok") EXCEPT !.length = n] : n \in ReportLengths }
    \cup { Outcome("error") }

\* the error text a settled sub-task reports (<<>>: no error field)
OutcomeError(o) ==
    CASE o.kind = "unparseable" -> <<"AI returned unparseable response">>
      [] o.kind = "error" -> <<"provider error">>
      [] o.kind = "rejected" -> <<"rejected">>
      [] OTHER -> <<>>

\* the two scores weigh the same
BlendedScoreEven(aiScore, basicScore) == RoundDiv(5 * aiScore + 5 * basicScore, 10)

\* Math.round(aiResult.score * 0.6 + basicResult.score * 0.4)
BlendedScore(aiScore, basicScore) == RoundDiv(6 * aiScore + 4 * basicScore, 10)

\* what enhanceAeoWithAI resolves to (a rejection is unwrapped by runFullAudit
\* to the same shape)
enhanceAeoWithAI(basicResult, o) ==
    IF o.kind = "ok"
    THEN [ result |->
             [basicResult EXCEPT
                !.score = BlendedScore(o.score, basicResult.score),
                !.grade = InlineGrade(BlendedScore(o.score, basicResult.score)),
                !.findings = basicResult.findings \o
                    [i \in 1..Len(o.findings) |->
                        FindingD(o.findings[i].type, o.findings[i].message,
                                 <<"(AI-analyzed)">>)]],
           aiUsed |-> TRUE, error |-> <<>> ]
    ELSE [ result |-> basicResult, aiUsed |-> FALSE, error |-> OutcomeError(o) ]

\* the content of a generated file: who wrote it
Det(name) == [by |-> "generator", name |-> name]
AiText(name) == [by |-> "ai", name |-> name]
Undefined(name) == [by |-> "undefined", name |-> name]

\* what generateLlmsTxtWithAI resolves to: result is <<>> for null, else the
\* parsed object, whatever keys it has
generateLlmsTxtWithAI(o) ==
    IF o.kind = "ok"
    THEN [ result |-> << [ llmsTxt |-> IF o.hasLlmsTxt THEN AiText("llms.txt")
                                       ELSE Undefined("llms.txt"),
                           llmsFullTxt |-> IF o.hasLlmsFullTxt THEN AiText("llms-full.txt")
                                           ELSE Undefined("llms-full.txt") ] >>,
           error |-> <<>> ]
    ELSE [ result |-> <<>>, error |-> OutcomeError(o) ]

JsonLdFile == "home.jsonld"

\* what generateSchemaJsonLdWithAI resolves to: parsed.files || null
generateSchemaJsonLdWithAI(o) ==
    IF o.kind = "ok"
    THEN [ result |-> IF o.hasFiles THEN << (JsonLdFile :> AiText(JsonLdFile)) >> ELSE <<>>,
           error |-> <<>> ]
    ELSE [ result |-> <<>>, error |-> OutcomeError(o) ]

\* the report call's text is taken whatever its length
enhanceReportWithAIAnyLength(basicReport, o) ==
    IF o.kind = "ok"
    THEN [ report |-> AiText("remediation-report.md"), aiUsed |-> TRUE, error |-> <<>> ]
    ELSE [ report |-> basicReport, aiUsed |-> FALSE, error |-> OutcomeError(o) ]

\* what enhanceReportWithAI resolves to
enhanceReportWithAI(basicReport, o) ==
    IF o.kind = "ok" /\ o.length > MinReportLength
    THEN [ report |-> AiText("remediation-report.md"), aiUsed |-> TRUE, error |-> <<>> ]
    ELSE IF o.kind = "ok"
    THEN [ report |-> basicReport, aiUsed |-> FALSE,
           error |-> <<"AI returned too-short response">> ]
    ELSE [ report |-> basicReport, aiUsed |-> FALSE, error |-> OutcomeError(o) ]

(***************************************************************************)
(* generators.ts is not among the sources: each generator is a             *)
(* deterministic function of the crawl, and its output is named by the     *)
(* file it writes.                                                         *)
(***************************************************************************)
generateRobotsTxt == Det("robots.txt")
generateSitemapXml == Det("sitemap.xml")
generateLlmsTxt == Det("llms.txt")
generateLlmsFullTxt == Det("llms-full.txt")
generateSchemaJsonLd == (JsonLdFile :> Det(JsonLdFile))
generateRemediationReport == Det("remediation-report.md")

(***************************************************************************)
(* The orchestrator: the pure parts of runFullAudit                        *)
(***************************************************************************)
DimensionIds ==
    << "schema", "robots", "llmsTxt", "aeo", "meta", "sitemap", "semantic", "rendering" >>

\* the pages had the slice been left out: every crawled page
pagesUnsliced(c) == c.pages

\* crawl.pages.slice(0, MAX_PAGES_TO_AUDIT)
pagesToAudit(c) == SubSeq(c.pages, 1, Min(Len(c.pages), MAX_PAGES_TO_AUDIT))

siteName(c) ==
    IF pagesToAudit(c) # <<>> /\ pagesToAudit(c)[1].title # ""
    THEN pagesToAudit(c)[1].title ELSE "hostname"

\* dimensions.find(d => d.id === id)
FindDimension(dims, id) ==
    dims[CHOOSE i \in 1..Len(dims) :
            dims[i].id = id /\ \A j \in 1..(i - 1) : dims[j].id # id]

\* the weighted sum had the AEO score not been read again after the overlay:
\* the score checkAeoContent returned is used whatever the blend gave
OverallScoreOfScorers(scorerResults, aeoScore) ==
    RoundDiv( FindDimension(scorerResults, "schema").score * DIMENSION_WEIGHTS.schema
            + FindDimension(scorerResults, "robots").score * DIMENSION_WEIGHTS.robots
            + FindDimension(scorerResults, "llmsTxt").score * DIMENSION_WEIGHTS.llmsTxt
            + FindDimension(scorerResults, "aeo").score * DIMENSION_WEIGHTS.aeo
            + FindDimension(scorerResults, "meta").score * DIMENSION_WEIGHTS.meta
            + FindDimension(scorerResults, "sitemap").score * DIMENSION_WEIGHTS.sitemap
            + FindDimension(scorerResults, "semantic").score * DIMENSION_WEIGHTS.semantic
            + FindDimension(scorerResults, "rendering").score * DIMENSION_WEIGHTS.rendering,
              100 )

\* Math.round of the weighted sum: the seven scores the scorers returned and
\* the AEO score given
OverallScore(scorerResults, aeoScore) ==
    RoundDiv( FindDimension(scorerResults, "schema").score * DIMENSION_WEIGHTS.schema
            + FindDimension(scorerResults, "robots").score * DIMENSION_WEIGHTS.robots
            + FindDimension(scorerResults, "llmsTxt").score * DIMENSION_WEIGHTS.llmsTxt
            + aeoScore * DIMENSION_WEIGHTS.aeo
            + FindDimension(scorerResults, "meta").score * DIMENSION_WEIGHTS.meta
            + FindDimension(scorerResults, "sitemap").score * DIMENSION_WEIGHTS.sitemap
            + FindDimension(scorerResults, "semantic").score * DIMENSION_WEIGHTS.semantic
            + FindDimension(scorerResults, "rendering").score * DIMENSION_WEIGHTS.rendering,
              100 )

\* (100 - score) * weight
Impact(d) == (100 - d.score) * d.weight

\* the comparator of a sort that is not stable: equal impacts come out in
\* reverse order
SortsBeforeReversed(dims, i, j) ==
    \/ Impact(dims[i]) > Impact(dims[j])
    \/ Impact(dims[i]) = Impact(dims[j]) /\ i > j

\* sort's comparator puts a before b
SortsBefore(dims, i, j) ==
    \/ Impact(dims[i]) > Impact(dims[j])
    \/ Impact(dims[i]) = Impact(dims[j]) /\ i < j

\* [...dimensions].sort(...): the index that lands at each rank
SortedIndices(dims) ==
    [r \in 1..Len(dims) |->
        CHOOSE i \in 1..Len(dims) :
            Cardinality({ j \in 1..Len(dims) : j # i /\ SortsBefore(dims, j, i) }) = r - 1]

\* the message of the first finding of a type (<<>> when there is none)
FirstMessage(findings, type) ==
    LET hits == { i \in 1..Len(findings) : findings[i].type = type }
    IN  IF hits = {} THEN <<>>
        ELSE findings[CHOOSE i \in hits : \A j \in hits : i <= j].message

PriorityText(d) ==
    [ name |-> d.name, score |-> d.score,
      action |-> IF FirstMessage(d.findings, "fail") # <<>>
                 THEN FirstMessage(d.findings, "fail")
                 ELSE IF FirstMessage(d.findings, "warning") # <<>>
                 THEN FirstMessage(d.findings, "warning")
                 ELSE <<"Improve", d.name>> ]

generatePriorities(dims) ==
    [r \in 1..Min(3, Len(dims)) |-> PriorityText(dims[SortedIndices(dims)[r]])]

(***************************************************************************)
(* store.ts: the two in-memory maps                                        *)
(***************************************************************************)
\* a sweep that also takes the entries whose expiresAt is the present moment
cleanupAtExpiry(map, t) == [id \in { k \in DOMAIN map : map[k].expiresAt > t } |-> map[id]]

\* the entries of a map that cleanup() keeps
cleanup(map, t) == [id \in { k \in DOMAIN map : ~(map[k].expiresAt < t) } |-> map[id]]

\* store.set(id, {files, expiresAt}) after cleanup()
storeResult(map, id, files, t) ==
    cleanup(map, t) @@ (id :> [files |-> files, expiresAt |-> t + STORE_TTL_MS])

\* pageStore.set(id, {...}) after cleanup()
storePages(map, id, pages, schemaFiles, baseUrl, name, t) ==
    cleanup(map, t) @@
    (id :> [ pages |-> pages, schemaFiles |-> schemaFiles, baseUrl |-> baseUrl,
             siteName |-> name, expiresAt |-> t + STORE_TTL_MS ])

EmptyMap == [id \in {} |-> 0]

(***************************************************************************)
(* The crawls an audit run is handed                                       *)
(***************************************************************************)
Crawl(pages, robotsTxt, llmsTxt, llmsFullTxt, sitemapXml, siteType) ==
    [ baseUrl |-> <<Origin>>, pages |-> pages, robotsTxt |-> robotsTxt,
      llmsTxt |-> llmsTxt, llmsFullTxt |-> llmsFullTxt, sitemapXml |-> sitemapXml,
      siteType |-> siteType ]

\* a page whose every page-based score is 0
ZeroPage(path) == [BarePage(path) EXCEPT !.totalImgs = 1, !.imgsWithoutAlt = 1]

GoodRobots ==
    RobotsText(<< Line("ua", "*"), Line("allow", "/"), Line("ua", "GPTBot"),
                  Line("allow", "/"), Line("sitemap", "/sitemap.xml") >>)

GoodLlms ==
    [ kind |-> "text", hasH1 |-> TRUE, hasBlockquote |-> TRUE, h2Sections |-> 2,
      links |-> << <<Origin>> >> ]

GoodSitemap ==
    [ kind |-> "text", hasNamespace |-> TRUE, locs |-> << <<Origin, "/">> >>,
      hasLastmod |-> TRUE ]

(***************************************************************************)
(* crawler.ts: hosts.  A hostname is the sequence of its labels; an IPv6   *)
(* literal is "[", its groups and "]".                                     *)
(***************************************************************************)
\* the prefixes the patterns look for in the first group of an IPv6 literal
GroupPrefixes(group) ==
    CASE group = "fc00" -> {"fc"}
      [] group = "fd12" -> {"fd"}
      [] group = "fe80" -> {"fe80"}
      [] OTHER -> {}

\* BLOCKED_HOSTS.some(pattern => pattern.test(hostname))
BLOCKED_HOSTS(h) ==
    \/ h = << "localhost" >>
    \/ Len(h) >= 2 /\ h[1] = "127"
    \/ Len(h) >= 2 /\ h[1] = "10"
    \/ Len(h) >= 3 /\ h[1] = "172"
         /\ h[2] \in { "16", "17", "18", "19", "20", "21", "22", "23", "24", "25",
                       "26", "27", "28", "29", "30", "31" }
    \/ Len(h) >= 3 /\ h[1] = "192" /\ h[2] = "168"
    \/ Len(h) >= 2 /\ h[1] = "0"
    \/ Len(h) >= 3 /\ h[1] = "169" /\ h[2] = "254"
    \/ h = << "[", "::1", "]" >>
    \/ Len(h) >= 2 /\ h[1] = "[" /\ "fc" \in GroupPrefixes(h[2])
    \/ Len(h) >= 2 /\ h[1] = "[" /\ "fd" \in GroupPrefixes(h[2])
    \/ Len(h) >= 2 /\ h[1] = "[" /\ "fe80" \in GroupPrefixes(h[2])

PublicHost == << "example", "com" >>
Loopback == << "127", "0", "0", "1" >>
Metadata == << "169", "254", "169", "254" >>

Hosts ==
    { PublicHost, << "localhost" >>, Loopback, << "10", "0", "0", "5" >>,
      << "172", "16", "0", "1" >>, << "172", "32", "0", "1" >>,
      << "192", "168", "1", "1" >>, << "0", "0", "0", "0" >>, Metadata,
      << "[", "::1", "]" >>, << "[", "fc00", "::1", "]" >>, << "[", "fd12", "::1", "]" >>,
      << "[", "fe80", "::1", "]" >>, << "[", "2001", "::1", "]" >> }

(***************************************************************************)
(* The site a crawl meets.  Every url of the site has the origin token     *)
(* first, which stands for the scheme and seedHost.  A server answers a    *)
(* page request by                                                         *)
(*   kind   "html" (2xx, an HTML content type, a body), "empty" (the same  *)
(*          with an empty body), "other" (another content type),           *)
(*          "httpError" (not 2xx), "netError" (fetch threw or timed out)   *)
(*   page   what parseHTML finds in the body                               *)
(*   via    the hosts of the redirects fetch followed on the way           *)
(* and a text-file request by text (NullText: not 2xx or fetch threw) and  *)
(* via.                                                                    *)
(***************************************************************************)
CONCURRENCY == 5
ExtraLinks == 2

Html(page) == [kind |-> "html", page |-> page, via |-> <<>>]
NoPage(kind) == [kind |-> kind, page |-> BarePage(<<"/">>), via |-> <<>>]
Text(text) == [text |-> text, via |-> <<>>]

Site(seedHost, root, links, responses, robotsTxt, sitemapXml, llmsTxt, llmsFullTxt) ==
    [ seedHost |-> seedHost, root |-> root, links |-> links, responses |-> responses,
      robotsTxt |-> robotsTxt, sitemapXml |-> sitemapXml, llmsTxt |-> llmsTxt,
      llmsFullTxt |-> llmsFullTxt ]

\* a public site that serves the given pages, all linked from the first, and
\* the given text files
SiteOf(pages, robotsTxt, llmsTxt, llmsFullTxt, sitemapXml) ==
    Site(PublicHost, Html(pages[1]),
         [i \in 1..(Len(pages) - 1) |-> UrlOf(pages[i + 1].path)],
         [u \in { UrlOf(pages[i].path) : i \in 2..Len(pages) } |->
             Html(CHOOSE q \in { pages[i] : i \in 2..Len(pages) } : UrlOf(q.path) = u)],
         Text(robotsTxt), Text(sitemapXml), Text(llmsTxt), Text(llmsFullTxt))

\* the path of the k-th page of a site with many pages
NumberedPath(k) == << "/", "p", "/", ToString(k) >>

\* a site whose root page links to more pages than the crawler discovers; the
\* pages past the audit ceiling are the good ones
ManyPages ==
    [i \in 1..(MAX_PAGES_TO_DISCOVER + ExtraLinks + 1) |->
        IF i = 1 THEN PlainPage(<<"/">>)
        ELSE IF i <= MAX_PAGES_TO_AUDIT THEN BarePage(NumberedPath(i))
        ELSE GoodPage(NumberedPath(i))]

SamplePageLists ==
    { << GoodPage(<<"/">>) >>,
      << ZeroPage(<<"/">>) >>,
      << PlainPage(<<"/">>), GoodPage(<<"/", "about">>), BarePage(<<"/", "pricing">>) >>,
      << GoodPage(<<"/">>), PlainPage(<<"/", "blog">>) >>,
      << PlainPage(<<"/">>), [GoodPage(<<"/", "about">>) EXCEPT !.jsonLd = << NullItem >>] >> }

SampleTextFiles ==
    { << NullText, NullText, NullText, NullText >>,
      << GoodRobots, GoodLlms, [kind |-> "text"], GoodSitemap >>,
      << RobotsText(<< Line("ua", "GPTBot"), Line("disallow", "/") >>),
         [GoodLlms EXCEPT !.links = <<>>], NullText,
         [GoodSitemap EXCEPT !.hasNamespace = FALSE] >>,
      << EmptyText, GoodLlms, EmptyText, NullText >> }

\* a site with a link back to its root, a page that is down, a page behind a
\* redirect to a loopback address and a robots.txt behind a redirect to a
\* link-local address
MixedSite ==
    Site(PublicHost, Html(PlainPage(<<"/">>)),
         << UrlOf(<<"/", "about">>), <<Origin, "/">>, UrlOf(<<"/", "blog">>),
            UrlOf(<<"/", "pricing">>), UrlOf(<<"/", "faq">>), UrlOf(<<"/", "contact">>) >>,
         ( UrlOf(<<"/", "about">>) :> Html(GoodPage(<<"/", "about">>)) ) @@
         ( <<Origin, "/">> :> Html(PlainPage(<<"/">>)) ) @@
         ( UrlOf(<<"/", "blog">>) :> NoPage("httpError") ) @@
         ( UrlOf(<<"/", "pricing">>) :>
               [Html(BarePage(<<"/", "pricing">>)) EXCEPT !.via = << Loopback >>] ) @@
         ( UrlOf(<<"/", "faq">>) :> NoPage("other") ) @@
         ( UrlOf(<<"/", "contact">>) :> NoPage("netError") ),
         [Text(GoodRobots) EXCEPT !.via = << Metadata >>],
         Text(GoodSitemap), Text(NullText), Text(NullText))

Sites ==
    { SiteOf(p, a[1], a[2], a[3], a[4]) : p \in SamplePageLists, a \in SampleTextFiles }
    \cup { SiteOf(ManyPages, NullText, NullText, NullText, NullText), MixedSite }
    \cup { [SiteOf(<< GoodPage(<<"/">>) >>, NullText, NullText, NullText, NullText)
               EXCEPT !.seedHost = h] : h \in Hosts }
    \cup { [SiteOf(<< GoodPage(<<"/">>) >>, NullText, NullText, NullText, NullText)
               EXCEPT !.root = r] :
             r \in { NoPage("empty"), NoPage("other"), NoPage("httpError"), NoPage("netError"),
                     [Html(GoodPage(<<"/">>)) EXCEPT !.via = << Loopback >>] } }

(***************************************************************************)
(* crawler.ts: parseUploadedZip.  An archive is the sequence of its        *)
(* entries in zip order; an entry has                                      *)
(*   path   the segments of its name (a/b/c.html is <<"a", "b", "c.html">>)*)
(*   dir    whether it is a directory entry                                *)
(*   page   what parseHTML finds in its text, read when it is a page       *)
(*   text   its text, read when it is one of the four special files        *)
(***************************************************************************)
\* detectSiteType
detectSiteType(ps) ==
    IF \E i \in 1..Len(ps) : ps[i].isSPA THEN "SPA" ELSE "Static HTML"

Entry(path, dir, page, text) == [path |-> path, dir |-> dir, page |-> page, text |-> text]

HtmlEntry(path, page) == Entry(path, FALSE, page, NullText)
TextEntry(path, text) == Entry(path, FALSE, BarePage(<<"/">>), text)
DirEntry(path) == Entry(path, TRUE, BarePage(<<"/">>), NullText)

\* String.prototype.toLowerCase on the file names of the model
LowerName(name) ==
    CASE name = "INDEX.HTML" -> "index.html"
      [] name = "Robots.TXT" -> "robots.txt"
      [] OTHER -> name

\* fileName.endsWith(".html") || fileName.endsWith(".htm"), fileName in lower
\* case
EndsWithHtml(fileName) == fileName \in { "index.html", "about.htm", "pages.html" }

\* the replace callback's hasRoot: every entry of the archive is under the
\* first folder of the path, or is named like it
hasRoot(entries, first) == \A i \in 1..Len(entries) : entries[i].path[1] = first

\* path.replace(/^[^/]+\//, ...): the first folder is dropped when it is the
\* root of the whole archive
normalizedPath(entries, path) ==
    IF Len(path) >= 2 /\ hasRoot(entries, path[1]) THEN Tail(path) ELSE path

\* normalizedPath.split("/").pop()?.toLowerCase()
fileName(entries, e) ==
    LowerName(normalizedPath(entries, e.path)[Len(normalizedPath(entries, e.path))])

\* !normalizedPath.includes("/") || normalizedPath.split("/").length <= 2
isRoot(entries, e) == Len(normalizedPath(entries, e.path)) <= 2

\* the entry is taken as the special file of that name
IsSpecial(entries, e, name) ==
    ~e.dir /\ isRoot(entries, e) /\ fileName(entries, e) = name

SpecialNames == { "robots.txt", "sitemap.xml", "llms.txt", "llms-full.txt" }

\* the text of the last entry taken as that special file (null when none is)
SpecialText(entries, name) ==
    LET hits == { i \in 1..Len(entries) : IsSpecial(entries, entries[i], name) }
    IN  IF hits = {} THEN NullText
        ELSE entries[CHOOSE i \in hits : \A j \in hits : j <= i].text

\* the entry becomes a page
IsPageEntry(entries, e) ==
    /\ ~e.dir
    /\ \A name \in SpecialNames : ~IsSpecial(entries, e, name)
    /\ EndsWithHtml(fileName(entries, e))

\* "/" + normalizedPath, in the tokens of a path
pagePath(segments) ==
    FlatSeq([i \in 1..Len(segments) |-> << "/", segments[i] >>])

\* the PageData pushed for an entry
UploadedPage(entries, e) ==
    [e.page EXCEPT !.url = << Origin >> \o pagePath(normalizedPath(entries, e.path)),
                   !.path = pagePath(normalizedPath(entries, e.path))]

NoHtmlFiles == "No HTML files found in the zip archive."

\* parseUploadedZip had the check for an empty page list been left out
parseUploadedZipUnchecked(entries) ==
    LET pageEntries == FilterIdx(entries,
                           { i \in 1..Len(entries) : IsPageEntry(entries, entries[i]) }, 1)
        uploaded == [i \in 1..Len(pageEntries) |-> UploadedPage(entries, pageEntries[i])]
    IN  Crawl(uploaded, SpecialText(entries, "robots.txt"),
              SpecialText(entries, "llms.txt"), SpecialText(entries, "llms-full.txt"),
              SpecialText(entries, "sitemap.xml"), detectSiteType(uploaded))

\* parseUploadedZip of an archive JSZip could load
parseUploadedZip(entries) ==
    LET pageEntries == FilterIdx(entries,
                           { i \in 1..Len(entries) : IsPageEntry(entries, entries[i]) }, 1)
        uploaded == [i \in 1..Len(pageEntries) |-> UploadedPage(entries, pageEntries[i])]
    IN  IF Len(uploaded) = 0 THEN Threw(NoHtmlFiles)
        ELSE Crawl(uploaded, SpecialText(entries, "robots.txt"),
                   SpecialText(entries, "llms.txt"), SpecialText(entries, "llms-full.txt"),
                   SpecialText(entries, "sitemap.xml"), detectSiteType(uploaded))

\* a page without JSON-LD that the page-based scorers rate highly
UnmarkedPage(path) == [GoodPage(path) EXCEPT !.jsonLd = <<>>]

\* the archives uploaded
Archives ==
    { <<>>,
      << TextEntry(<<"robots.txt">>, GoodRobots), TextEntry(<<"style.css">>, EmptyText) >>,
      << DirEntry(<<"pages.html">>), TextEntry(<<"readme.txt">>, EmptyText) >>,
      << DirEntry(<<"site">>), HtmlEntry(<<"site", "index.html">>, GoodPage(<<"/">>)),
         TextEntry(<<"site", "Robots.TXT">>, GoodRobots),
         HtmlEntry(<<"site", "docs", "about.htm">>, PlainPage(<<"/">>)),
         TextEntry(<<"site", "docs", "old", "llms.txt">>, GoodLlms) >>,
      << HtmlEntry(<<"index.html">>, UnmarkedPage(<<"/">>)) >>,
      << HtmlEntry(<<"docs", "INDEX.HTML">>, BarePage(<<"/">>)),
         TextEntry(<<"sitemap.xml">>, GoodSitemap),
         TextEntry(<<"llms-full.txt">>, [kind |-> "text"]) >> }

(***************************************************************************)
(* The stream of the audit route and the run of runFullAudit               *)
(***************************************************************************)
Progress(dimension, status, score, detail) ==
    [ type |-> "progress", dimension |-> dimension, status |-> status,
      score |-> score, detail |-> detail ]

InfoMessage(c) ==
    [ type |-> "info", siteType |-> c.siteType, pagesFound |-> Len(c.pages),
      baseUrl |-> c.baseUrl ]

\* the final message had it been sent as one more progress event
CompleteAsProgress(r) == [type |-> "progress", result |-> r]

CompleteMessage(r) == [type |-> "complete", result |-> r]

ErrorMessage(m) == [type |-> "error", message |-> m]

AiDiagnostic(step, success, error) ==
    [step |-> step, success |-> success, error |-> error]

\* the three settled sub-tasks as runFullAudit unwraps them
AeoAiResult(aeoResult, aiState) == enhanceAeoWithAI(aeoResult, aiState.aeo)
LlmsAiResult(aiState) == generateLlmsTxtWithAI(aiState.llms)
SchemaAiResult(aiState) == generateSchemaJsonLdWithAI(aiState.schema)

\* the flag had it asked for all three sub-tasks to succeed
allAiSucceeded(dims, aiState) ==
    /\ AeoAiResult(FindDimension(dims, "aeo"), aiState).aiUsed
    /\ LlmsAiResult(aiState).result # <<>>
    /\ SchemaAiResult(aiState).result # <<>>

anyAiSucceeded(dims, aiState) ==
    \/ AeoAiResult(FindDimension(dims, "aeo"), aiState).aiUsed
    \/ LlmsAiResult(aiState).result # <<>>
    \/ SchemaAiResult(aiState).result # <<>>

\* the dimensions after the AEO overlay
OverlaidDimensions(dims, aiState) ==
    LET aeoAiResult == AeoAiResult(FindDimension(dims, "aeo"), aiState)
    IN  IF aeoAiResult.aiUsed
        THEN [i \in 1..Len(dims) |-> IF dims[i].id = "aeo" THEN aeoAiResult.result ELSE dims[i]]
        ELSE dims

\* only the sub-tasks that succeeded leave an entry
JoinDiagnosticsOfSuccesses(dims, aiState) ==
    SelectSeq(
        << AiDiagnostic("AEO Enhancement",
                        AeoAiResult(FindDimension(dims, "aeo"), aiState).aiUsed,
                        AeoAiResult(FindDimension(dims, "aeo"), aiState).error),
           AiDiagnostic("llms.txt Generation", LlmsAiResult(aiState).result # <<>>,
                        LlmsAiResult(aiState).error),
           AiDiagnostic("Schema JSON-LD", SchemaAiResult(aiState).result # <<>>,
                        SchemaAiResult(aiState).error) >>,
        LAMBDA d : d.success)

JoinDiagnostics(dims, aiState) ==
    << AiDiagnostic("AEO Enhancement",
                    AeoAiResult(FindDimension(dims, "aeo"), aiState).aiUsed,
                    AeoAiResult(FindDimension(dims, "aeo"), aiState).error),
       AiDiagnostic("llms.txt Generation", LlmsAiResult(aiState).result # <<>>,
                    LlmsAiResult(aiState).error),
       AiDiagnostic("Schema JSON-LD", SchemaAiResult(aiState).result # <<>>,
                    SchemaAiResult(aiState).error) >>

\* schemaAiResult.result || generateSchemaJsonLd(...)
SchemaFiles(aiState) ==
    IF SchemaAiResult(aiState).result # <<>> THEN SchemaAiResult(aiState).result[1]
    ELSE generateSchemaJsonLd

\* the files had the generators not stood in for a failed llms.txt call
AiPathFilesWithoutFallback(aiState) ==
    ("robots.txt" :> generateRobotsTxt) @@
    ("sitemap.xml" :> generateSitemapXml) @@
    (IF LlmsAiResult(aiState).result # <<>>
     THEN ("llms.txt" :> LlmsAiResult(aiState).result[1].llmsTxt) @@
          ("llms-full.txt" :> LlmsAiResult(aiState).result[1].llmsFullTxt)
     ELSE << >>) @@
    SchemaFiles(aiState)

\* the files of the AI path before the report is added
AiPathFiles(aiState) ==
    ("robots.txt" :> generateRobotsTxt) @@
    ("sitemap.xml" :> generateSitemapXml) @@
    (IF LlmsAiResult(aiState).result # <<>>
     THEN ("llms.txt" :> LlmsAiResult(aiState).result[1].llmsTxt) @@
          ("llms-full.txt" :> LlmsAiResult(aiState).result[1].llmsFullTxt)
     ELSE ("llms.txt" :> generateLlmsTxt) @@ ("llms-full.txt" :> generateLlmsFullTxt)) @@
    SchemaFiles(aiState)

\* the files of the path without AI capability before the report is added
BasicPathFiles ==
    ("robots.txt" :> generateRobotsTxt) @@
    ("sitemap.xml" :> generateSitemapXml) @@
    ("llms.txt" :> generateLlmsTxt) @@
    ("llms-full.txt" :> generateLlmsFullTxt) @@
    generateSchemaJsonLd

AuditResult(c, overallScore, dims, downloadId, aiMode, files, aiDiagnostics, fixPagesId) ==
    [ url |-> c.baseUrl, siteType |-> c.siteType,
      pagesAudited |-> Len(pagesToAudit(c)), totalPages |-> Len(c.pages),
      overallScore |-> overallScore, grade |-> getGrade(overallScore),
      dimensions |-> dims, priorities |-> generatePriorities(dims),
      downloadId |-> downloadId, aiMode |-> aiMode, generatedFiles |-> files,
      aiDiagnostics |-> aiDiagnostics, fixPagesId |-> fixPagesId ]

(***************************************************************************)
(* The scorers as a state machine: an input is drawn, one scorer rates it. *)
(***************************************************************************)
VARIABLES
    input,        \* SpecScorers: what the scorers are handed
    out,          \* SpecScorers: <<>>, or the one result a scorer returned
    site,         \* the site the request names
    visited,      \* crawlSite: visited
    toVisit,      \* crawlSite: toVisit
    batchStart,   \* crawlSite: the index in toVisit the current batch starts at
    inFlight,     \* the indices of toVisit whose fetchPage has not resolved
    results,      \* what the fetches of the current batch resolved to
    pages,        \* crawlSite: pages
    requests,     \* the urls fetch was called with, in call order
    hops,         \* the hosts fetch was redirected to, with the url asked for
    aux,          \* what the four fetchTextFile calls resolved to
    apiKey,       \* hasApiKey()
    crawl,        \* <<>>, or the CrawlResult crawlSite resolved to
    pc,           \* where the request is
    dimensions,   \* the list runFullAudit pushes the scorers' results to
    ai,           \* the outcomes of the AI sub-tasks
    partial,      \* <<>>, or partialResult
    report,       \* <<>>, or the remediation report
    result,       \* <<>>, or the AuditResult runFullAudit returned
    messages,     \* the NDJSON stream
    store,        \* store.ts: store
    pageStore,    \* store.ts: pageStore
    nextId,       \* the ids generateId has handed out
    now,          \* Date.now()
    upload,       \* <<>>, or the archive the request uploads
    limits,       \* rate-limit.ts: limits
    windows,      \* per IP, the window its requests are counted in
    issued,       \* what each store call was given, and when
    reply         \* <<>>, or what the last call returned

scorerVars == << input, out >>
crawlVars == << site, visited, toVisit, batchStart, inFlight, results, pages, requests,
                hops, aux >>
runVars == << apiKey, crawl, pc, dimensions, ai, partial, report, result, messages,
              store, pageStore, nextId, now >>
serviceVars == << limits, windows, issued, reply >>
vars == << scorerVars, crawlVars, runVars, upload, serviceVars >>

NoInput == ScorerInput(<<>>, NullText, NullText, NullText, NullText)

AiPending == [aeo |-> Pending, llms |-> Pending, schema |-> Pending, report |-> Pending]

\* no scorer input is under test
ScorersIdle == input = NoInput /\ out = <<>>

AuxPending ==
    [ robotsTxt |-> [kind |-> "pending"], sitemapXml |-> [kind |-> "pending"],
      llmsTxt |-> [kind |-> "pending"], llmsFullTxt |-> [kind |-> "pending"] ]

\* no crawl has started
CrawlIdle ==
    /\ visited = {}
    /\ toVisit = <<>>
    /\ batchStart = 1
    /\ inFlight = {}
    /\ results = <<>>
    /\ pages = <<>>
    /\ requests = <<>>
    /\ hops = {}
    /\ aux = AuxPending

\* no request is being served
RunIdle ==
    /\ site = MixedSite
    /\ CrawlIdle
    /\ apiKey = FALSE
    /\ crawl = <<>>
    /\ pc = "idle"
    /\ dimensions = <<>>
    /\ ai = AiPending
    /\ partial = <<>>
    /\ report = <<>>
    /\ result = <<>>
    /\ messages = <<>>
    /\ store = EmptyMap
    /\ pageStore = EmptyMap
    /\ nextId = 0
    /\ now = 0

\* no call to the rate limiter or the stores is under test
ServiceIdle ==
    /\ limits = EmptyMap
    /\ windows = EmptyMap
    /\ issued = EmptyMap
    /\ reply = <<>>

InitScorers ==
    /\ input \in ScorerInputs
    /\ out = <<>>
    /\ RunIdle
    /\ upload = <<>>
    /\ ServiceIdle

ScoreSchema ==
    /\ out = <<>>
    /\ out' = << checkSchema(input.pages) >>
    /\ UNCHANGED << input, crawlVars, runVars, upload, serviceVars >>

ScoreRobots ==
    /\ out = <<>>
    /\ out' = << checkRobots(input.robotsTxt) >>
    /\ UNCHANGED << input, crawlVars, runVars, upload, serviceVars >>

ScoreLlmsTxt ==
    /\ out = <<>>
    /\ out' = << checkLlmsTxt(input.llmsTxt, input.llmsFullTxt, input.pages) >>
    /\ UNCHANGED << input, crawlVars, runVars, upload, serviceVars >>

ScoreAeo ==
    /\ out = <<>>
    /\ out' = << checkAeoContent(input.pages) >>
    /\ UNCHANGED << input, crawlVars, runVars, upload, serviceVars >>

ScoreMeta ==
    /\ out = <<>>
    /\ out' = << checkMetaTags(input.pages) >>
    /\ UNCHANGED << input, crawlVars, runVars, upload, serviceVars >>

ScoreSitemap ==
    /\ out = <<>>
    /\ out' = << checkSitemap(input.sitemapXml, input.robotsTxt, input.pages) >>
    /\ UNCHANGED << input, crawlVars, runVars, upload, serviceVars >>

ScoreSemantic ==
    /\ out = <<>>
    /\ out' = << checkSemantic(input.pages) >>
    /\ UNCHANGED << input, crawlVars, runVars, upload, serviceVars >>

ScoreRendering ==
    /\ out = <<>>
    /\ out' = << checkRendering(input.pages) >>
    /\ UNCHANGED << input, crawlVars, runVars, upload, serviceVars >>

NextScorers ==
    \/ ScoreSchema \/ ScoreRobots \/ ScoreLlmsTxt \/ ScoreAeo
    \/ ScoreMeta \/ ScoreSitemap \/ ScoreSemantic \/ ScoreRendering

SpecScorers == InitScorers /\ [][NextScorers]_vars

(***************************************************************************)
(* Properties of the scorers                                               *)
(***************************************************************************)
\* C1: every scorer returns, for every input, an integer score within
\* [0, 100] and the grade of the thresholds A >= 90, B >= 80, C >= 70,
\* D >= 60, else F.
ScorerScoreInRange ==
    \A i \in 1..Len(out) :
        /\ ~IsThrew(out[i])
        /\ out[i].score \in 0..100
        /\ out[i].grade = getGrade(out[i].score)

\* the same for the scorers that returned
ReturnedScoreInRange ==
    \A i \in 1..Len(out) :
        ~IsThrew(out[i]) => /\ out[i].score \in 0..100
                            /\ out[i].grade = getGrade(out[i].score)

\* a scorer was handed a page with a JSON-LD block that is null
ScoredNullJsonLd ==
    /\ out # <<>>
    /\ \E i \in 1..Len(input.pages) : \E k \in 1..Len(input.pages[i].jsonLd) :
           IsNullItem(input.pages[i].jsonLd[k])

\* the User-agent line a rule line j of a robots.txt stands under
AgentLineOf(lines, j) ==
    LET before == { i \in 1..(j - 1) : lines[i].k = "ua" /\ lines[i].v # "" }
    IN  IF before = {} THEN 0 ELSE CHOOSE i \in before : \A h \in before : h <= i

\* the file has the rule `type: /' under `User-agent: GPTBot'
GptBotHas(lines, type) ==
    \E j \in 1..Len(lines) :
        /\ lines[j] = Line(type, "/")
        /\ AgentLineOf(lines, j) # 0
        /\ Lower(lines[AgentLineOf(lines, j)].v) = "gptbot"

\* the file without the GPTBot lines and the rules under them
WithoutGptBot(lines) ==
    FilterIdx(lines,
              { j \in 1..Len(lines) :
                  IF lines[j].k = "ua" THEN Lower(lines[j].v) # "gptbot"
                  ELSE \/ AgentLineOf(lines, j) = 0
                       \/ Lower(lines[AgentLineOf(lines, j)].v) # "gptbot" },
              1)

\* C10: a robots.txt with `Disallow: /' under `User-agent: GPTBot' and no
\* `Allow: /' for GPTBot gets GPTBot classified as blocked, and its score
\* before clamping is 3 lower than that of the same file without the GPTBot
\* lines, when that file does not block GPTBot.
GptBotDisallowedIsBlocked ==
    ( /\ out # <<>>
      /\ ~IsThrew(out[1])
      /\ out[1].id = "robots"
      /\ ~Falsy(input.robotsTxt)
      /\ GptBotHas(input.robotsTxt.lines, "disallow")
      /\ ~GptBotHas(input.robotsTxt.lines, "allow") )
    => LET lines == input.robotsTxt.lines
           rest == WithoutGptBot(lines)
       IN  /\ \E i \in 1..Len(out[1].findings) :
                  /\ out[1].findings[i].type = "fail"
                  /\ SeqHas(out[1].findings[i].detail, "GPTBot")
           /\ ( /\ rest # <<>>
                /\ CrawlerClass(parseRobotsTxt(RobotsText(rest)), "GPTBot") # "blocked" )
              => RobotsRawScore(input.robotsTxt) = RobotsRawScore(RobotsText(rest)) - 3

(***************************************************************************)
(* The audit request as a state machine.  pc runs                          *)
(*   start -> crawling -> schema -> robots -> llmsTxt -> aeo -> meta ->    *)
(*   sitemap -> semantic -> rendering -> ai -> (aiWait ->) report ->       *)
(*   finish -> closed                                                      *)
(* and goes to closed from wherever the route catches an exception.        *)
(***************************************************************************)
Init ==
    /\ ScorersIdle
    /\ ServiceIdle
    /\ \/ upload = <<>> /\ site \in Sites
       \/ upload \in { << a >> : a \in Archives } /\ site = MixedSite
    /\ CrawlIdle
    /\ apiKey \in BOOLEAN
    /\ crawl = <<>>
    /\ pc = "start"
    /\ dimensions = <<>>
    /\ ai = AiPending
    /\ partial = <<>>
    /\ report = <<>>
    /\ result = <<>>
    /\ messages = <<>>
    /\ store = EmptyMap
    /\ pageStore = EmptyMap
    /\ nextId = 0
    /\ now = 0

auditVars == << dimensions, ai, partial, report, result, store, pageStore, nextId, now >>

baseUrl == << Origin >>

\* isBlockedUrl for a url of the site
isBlockedUrl(url) == BLOCKED_HOSTS(site.seedHost)

\* the hops a response adds for the url asked for
HopsOf(url, via) == { [url |-> url, host |-> via[i]] : i \in 1..Len(via) }

\* the PageData crawlSite builds from a response
PageData(url, path, response) == [response.page EXCEPT !.url = url, !.path = path]

\* every url left is fetched at once
BatchIndicesUnsliced(tv, b) == b..Len(tv)

\* toVisit.slice(i, i + CONCURRENCY), as indices of toVisit from b on
BatchIndices(tv, b) == b..Min(b + CONCURRENCY - 1, Len(tv))

AuxFiles == << "robotsTxt", "sitemapXml", "llmsTxt", "llmsFullTxt" >>

AuxUrl(name) ==
    CASE name = "robotsTxt" -> << Origin, "/", "robots.txt" >>
      [] name = "sitemapXml" -> << Origin, "/", "sitemap.xml" >>
      [] name = "llmsTxt" -> << Origin, "/", "llms.txt" >>
      [] name = "llmsFullTxt" -> << Origin, "/", "llms-full.txt" >>

\* the batch from b on starts: each url not visited yet is marked and fetched
\* unless blocked; with no url left the four text files are fetched instead
Launch(vis, tv, b) ==
    IF b <= Len(tv)
    THEN LET marked == { k \in BatchIndices(tv, b) : tv[k] \notin vis }
             fetching == { k \in marked : ~isBlockedUrl(tv[k]) }
         IN  /\ visited' = vis \cup { tv[k] : k \in marked }
             /\ requests' = requests \o FilterIdx(tv, fetching, 1)
             /\ inFlight' = fetching
             /\ results' = [k \in BatchIndices(tv, b) |-> <<>>]
             /\ batchStart' = b
             /\ aux' = aux
             /\ pc' = "batch"
    ELSE /\ visited' = vis
         /\ requests' = requests \o
               FilterIdx([k \in 1..Len(AuxFiles) |-> AuxUrl(AuxFiles[k])],
                         { k \in 1..Len(AuxFiles) : ~isBlockedUrl(AuxUrl(AuxFiles[k])) }, 1)
         /\ aux' = [n \in DOMAIN AuxPending |->
                       IF isBlockedUrl(AuxUrl(n)) THEN NullText ELSE AuxPending[n]]
         /\ inFlight' = {}
         /\ results' = <<>>
         /\ batchStart' = b
         /\ pc' = "aux"

\* the route opens the stream and calls crawlSite, which fetches the root
\* page unless its host is blocked
StartStream ==
    /\ pc = "start"
    /\ upload = <<>>
    /\ IF isBlockedUrl(baseUrl)
       THEN /\ messages' = << Progress("Crawling site", "running", <<>>, "Discovering pages"),
                              ErrorMessage("Could not fetch") >>
            /\ pc' = "closed"
            /\ UNCHANGED requests
       ELSE /\ messages' = << Progress("Crawling site", "running", <<>>, "Discovering pages") >>
            /\ requests' = << baseUrl >>
            /\ pc' = "rootFetch"
    /\ UNCHANGED << scorerVars, upload, serviceVars, site, visited, toVisit, batchStart, inFlight, results,
                    pages, hops, aux, apiKey, crawl, auditVars >>

\* the root page resolved: crawlSite throws, or records the page, picks the
\* links to visit and starts the first batch
RootResponds ==
    /\ pc = "rootFetch"
    /\ hops' = hops \cup HopsOf(baseUrl, site.root.via)
    /\ IF site.root.kind = "html"
       THEN LET tv == FilterIdx(site.links,
                          { k \in 1..Len(site.links) : site.links[k] # baseUrl }, 1)
            IN  /\ pages' = << PageData(baseUrl, <<"/">>, site.root) >>
                /\ toVisit' = SubSeq(tv, 1, Min(Len(tv), MAX_PAGES_TO_DISCOVER))
                /\ Launch({ baseUrl }, toVisit', 1)
                /\ UNCHANGED messages
       ELSE /\ messages' = Append(messages, ErrorMessage("Could not fetch"))
            /\ pc' = "closed"
            /\ UNCHANGED << visited, toVisit, batchStart, inFlight, results, pages,
                            requests, aux >>
    /\ UNCHANGED << scorerVars, upload, serviceVars, site, apiKey, crawl, auditVars >>

\* one fetchPage of the batch resolved
LinkResponds ==
    /\ pc = "batch"
    /\ \E k \in inFlight :
          LET response == site.responses[toVisit[k]]
          IN  /\ inFlight' = inFlight \ { k }
              /\ hops' = hops \cup HopsOf(toVisit[k], response.via)
              /\ results' = [results EXCEPT ![k] =
                    IF response.kind = "html"
                    THEN << PageData(toVisit[k], Pathname(toVisit[k]), response) >>
                    ELSE <<>>]
    /\ UNCHANGED << scorerVars, upload, serviceVars, site, visited, toVisit, batchStart, pages, requests, aux,
                    apiKey, crawl, pc, messages, auditVars >>

\* Promise.all of the batch resolved: its pages are pushed in batch order,
\* then comes the pause before the next batch or the text files
BatchJoin ==
    /\ pc = "batch"
    /\ inFlight = {}
    /\ pages' = pages \o FlatSeq([j \in 1..Cardinality(DOMAIN results) |->
                                     results[batchStart + j - 1]])
    /\ IF batchStart + CONCURRENCY <= Len(toVisit)
       THEN /\ pc' = "pause"
            /\ UNCHANGED << visited, requests, inFlight, results, batchStart, aux >>
       ELSE Launch(visited, toVisit, batchStart + CONCURRENCY)
    /\ UNCHANGED << scorerVars, upload, serviceVars, site, toVisit, hops, apiKey, crawl, messages, auditVars >>

\* the pause is over: the next batch starts
NextBatch ==
    /\ pc = "pause"
    /\ Launch(visited, toVisit, batchStart + CONCURRENCY)
    /\ UNCHANGED << scorerVars, upload, serviceVars, site, toVisit, pages, hops, apiKey, crawl, messages,
                    auditVars >>

\* one fetchTextFile resolved
AuxResponds ==
    /\ pc = "aux"
    /\ \E n \in DOMAIN aux :
          /\ aux[n].kind = "pending"
          /\ aux' = [aux EXCEPT ![n] = site[n].text]
          /\ hops' = hops \cup HopsOf(AuxUrl(n), site[n].via)
    /\ UNCHANGED << scorerVars, upload, serviceVars, site, visited, toVisit, batchStart, inFlight, results,
                    pages, requests, apiKey, crawl, pc, messages, auditVars >>

\* the upload route opens the stream and calls parseUploadedZip: it throws
\* and the catch reports it, or the route reports the site and calls
\* runFullAudit
StartUpload ==
    /\ pc = "start"
    /\ upload # <<>>
    /\ LET c == parseUploadedZip(upload[1])
       IN  IF IsThrew(c)
           THEN /\ messages' = << Progress("Extracting files", "running", <<>>, ""),
                                  ErrorMessage(c.threw) >>
                /\ pc' = "closed"
                /\ UNCHANGED crawl
           ELSE /\ messages' = << Progress("Extracting files", "running", <<>>, ""),
                                  Progress("Extracting files", "complete", <<>>, ""),
                                  InfoMessage(c) >>
                /\ crawl' = << c >>
                /\ pc' = "schema"
    /\ UNCHANGED << scorerVars, upload, serviceVars, crawlVars, apiKey, auditVars >>

\* crawlSite resolved: the route reports it and calls runFullAudit
CrawlSucceeds ==
    /\ pc = "aux"
    /\ \A n \in DOMAIN aux : aux[n].kind # "pending"
    /\ LET c == Crawl(pages, aux.robotsTxt, aux.llmsTxt, aux.llmsFullTxt, aux.sitemapXml,
                      detectSiteType(pages))
       IN  /\ crawl' = << c >>
           /\ messages' = messages \o
                 << Progress("Crawling site", "complete", <<>>, ""),
                    Progress("Site info", "complete", <<>>, ""),
                    InfoMessage(c) >>
    /\ pc' = "schema"
    /\ UNCHANGED << scorerVars, upload, serviceVars, crawlVars, apiKey, auditVars >>

\* one scorer step of runFullAudit: the running events, the scorer, the
\* complete event; a scorer that throws rejects runFullAudit, and the route's
\* catch reports it
ScorerStep(here, next, name, running, r) ==
    /\ pc = here
    /\ IF IsThrew(r)
       THEN /\ messages' = messages \o running \o << ErrorMessage(r.threw) >>
            /\ pc' = "closed"
            /\ UNCHANGED dimensions
       ELSE /\ messages' = messages \o running
                               \o << Progress(name, "complete", << r.score >>, "") >>
            /\ dimensions' = Append(dimensions, r)
            /\ pc' = next
    /\ UNCHANGED << scorerVars, upload, serviceVars, crawlVars, apiKey, crawl, ai, partial, report, result,
                    store, pageStore, nextId, now >>

StepSchema ==
    ScorerStep("schema", "robots", "Schema.org JSON-LD",
               << Progress("Schema.org JSON-LD", "running", <<>>, "Checking pages for structured data"),
                  Progress("Schema.org JSON-LD", "running", <<>>, "Analyzing JSON-LD blocks and schema types") >>,
               checkSchema(pagesToAudit(crawl[1])))

StepRobots ==
    ScorerStep("robots", "llmsTxt", "robots.txt",
               << Progress("robots.txt", "running", <<>>, "Checking robots.txt for AI crawler rules"),
                  Progress("robots.txt", "running", <<>>, "Analyzing AI crawler permissions") >>,
               checkRobots(crawl[1].robotsTxt))

StepLlmsTxt ==
    ScorerStep("llmsTxt", "aeo", "llms.txt",
               << Progress("llms.txt", "running", <<>>, "Looking for llms.txt and llms-full.txt"),
                  Progress("llms.txt", "running", <<>>, "Validating llmstxt.org format compliance") >>,
               checkLlmsTxt(crawl[1].llmsTxt, crawl[1].llmsFullTxt, pagesToAudit(crawl[1])))

StepAeo ==
    ScorerStep("aeo", "meta", "AEO Content Quality",
               << Progress("AEO Content Quality", "running", <<>>,
                           "Evaluating content structure for AI extraction") >>,
               checkAeoContent(pagesToAudit(crawl[1])))

StepMeta ==
    ScorerStep("meta", "sitemap", "Meta & OG Tags",
               << Progress("Meta & OG Tags", "running", <<>>,
                           "Checking 8 essential meta tags per page") >>,
               checkMetaTags(pagesToAudit(crawl[1])))

StepSitemap ==
    ScorerStep("sitemap", "semantic", "sitemap.xml",
               << Progress("sitemap.xml", "running", <<>>, "Validating sitemap for AI crawlers") >>,
               checkSitemap(crawl[1].sitemapXml, crawl[1].robotsTxt, pagesToAudit(crawl[1])))

StepSemantic ==
    ScorerStep("semantic", "rendering", "Semantic HTML",
               << Progress("Semantic HTML", "running", <<>>,
                           "Analyzing heading hierarchy and landmarks") >>,
               checkSemantic(pagesToAudit(crawl[1])))

StepRendering ==
    ScorerStep("rendering", "ai", "Rendering",
               << Progress("Rendering", "running", <<>>,
                           "Checking if content is visible without JavaScript") >>,
               checkRendering(pagesToAudit(crawl[1])))

\* hasApiKey(): the three AI calls are fired and awaited together
StartAi ==
    /\ pc = "ai"
    /\ apiKey
    /\ messages' = Append(messages,
           Progress("AI Analysis", "running", <<>>, "Running AI analysis (3 parallel tasks)"))
    /\ pc' = "aiWait"
    /\ UNCHANGED << scorerVars, upload, serviceVars, crawlVars, apiKey, crawl, dimensions, ai, partial, report, result,
                    store, pageStore, nextId, now >>

AeoSettles ==
    /\ pc = "aiWait"
    /\ ai.aeo.kind = "pending"
    /\ \E o \in AeoOutcomes : ai' = [ai EXCEPT !.aeo = o]
    /\ UNCHANGED << scorerVars, upload, serviceVars, crawlVars, apiKey, crawl, pc, dimensions, partial, report, result,
                    messages, store, pageStore, nextId, now >>

LlmsSettles ==
    /\ pc = "aiWait"
    /\ ai.llms.kind = "pending"
    /\ \E o \in LlmsOutcomes : ai' = [ai EXCEPT !.llms = o]
    /\ UNCHANGED << scorerVars, upload, serviceVars, crawlVars, apiKey, crawl, pc, dimensions, partial, report, result,
                    messages, store, pageStore, nextId, now >>

SchemaSettles ==
    /\ pc = "aiWait"
    /\ ai.schema.kind = "pending"
    /\ \E o \in SchemaOutcomes : ai' = [ai EXCEPT !.schema = o]
    /\ UNCHANGED << scorerVars, upload, serviceVars, crawlVars, apiKey, crawl, pc, dimensions, partial, report, result,
                    messages, store, pageStore, nextId, now >>

\* the assignment had storeResult kept a copy of the files
AssignFileToCopy(map, id, name, content) == map

\* files[name] = content, files being the object storeResult(files) put in
\* the entry of id: the entry, if still there, holds the file too
AssignFile(map, id, name, content) ==
    [k \in DOMAIN map |->
        IF k = id THEN [map[k] EXCEPT !.files = (name :> content) @@ @] ELSE map[k]]

\* Promise.allSettled resolved: diagnostics, overlay, aiMode, files, overall
\* score, priorities, storeResult, partialResult and the deterministic report
JoinAi ==
    /\ pc = "aiWait"
    /\ ai.aeo.kind # "pending" /\ ai.llms.kind # "pending" /\ ai.schema.kind # "pending"
    /\ LET dims == OverlaidDimensions(dimensions, ai)
           aiMode == IF anyAiSucceeded(dimensions, ai) THEN "ai-enhanced" ELSE "ai-failed"
           files == AiPathFiles(ai)
           overallScore == OverallScore(dimensions, FindDimension(dims, "aeo").score)
           downloadId == nextId + 1
       IN  /\ dimensions' = dims
           /\ messages' = messages \o
                 << Progress("AI Analysis", "complete", <<>>,
                             IF aiMode = "ai-enhanced" THEN "Claude AI analysis complete"
                             ELSE "AI calls failed - using deterministic results"),
                    Progress("AI Analysis", "running", <<>>, "Generating remediation report") >>
           /\ store' = storeResult(store, downloadId, files, now)
           /\ pageStore' = cleanup(pageStore, now)
           /\ nextId' = downloadId
           /\ partial' = << AuditResult(crawl[1], overallScore, dims, downloadId, aiMode,
                                        files, JoinDiagnostics(dimensions, ai), <<>>) >>
           /\ report' = << generateRemediationReport >>
           /\ pc' = IF anyAiSucceeded(dimensions, ai) THEN "report" ELSE "finish"
    /\ UNCHANGED << scorerVars, upload, serviceVars, crawlVars, apiKey, crawl, ai, result, now >>

\* enhanceReportWithAI resolved
ReportSettles ==
    /\ pc = "report"
    /\ \E o \in ReportOutcomes :
          LET reportAiResult == enhanceReportWithAI(report[1], o)
          IN  /\ ai' = [ai EXCEPT !.report = o]
              /\ partial' = << [partial[1] EXCEPT !.aiDiagnostics =
                                  Append(@, AiDiagnostic("Report Enhancement",
                                                         reportAiResult.aiUsed,
                                                         reportAiResult.error))] >>
              /\ report' = << reportAiResult.report >>
    /\ pc' = "finish"
    /\ UNCHANGED << scorerVars, upload, serviceVars, crawlVars, apiKey, crawl, dimensions, result, messages,
                    store, pageStore, nextId, now >>

\* no API key: the AI step is skipped and the deterministic files are built
BasicRun ==
    /\ pc = "ai"
    /\ ~apiKey
    /\ LET files == BasicPathFiles
           overallScore == OverallScore(dimensions, FindDimension(dimensions, "aeo").score)
           downloadId == nextId + 1
       IN  /\ messages' = Append(messages,
                 Progress("AI Analysis", "skipped", <<>>, "No API key configured"))
           /\ store' = storeResult(store, downloadId, files, now)
           /\ pageStore' = cleanup(pageStore, now)
           /\ nextId' = downloadId
           /\ partial' = << AuditResult(crawl[1], overallScore, dimensions, downloadId,
                                        "basic", files, <<>>, <<>>) >>
           /\ report' = << generateRemediationReport >>
           /\ pc' = "finish"
    /\ UNCHANGED << scorerVars, upload, serviceVars, crawlVars, apiKey, crawl, dimensions, ai, result, now >>

\* the report joins the files (the object the store holds too), the pages
\* are stored, runFullAudit returns and the route sends the result
FinishRun ==
    /\ pc = "finish"
    /\ LET files == ("remediation-report.md" :> report[1]) @@ partial[1].generatedFiles
           fixPagesId == nextId + 1
           final == [partial[1] EXCEPT !.generatedFiles = files,
                                       !.fixPagesId = << fixPagesId >>]
       IN  /\ store' = cleanup(AssignFile(store, partial[1].downloadId,
                                          "remediation-report.md", report[1]), now)
           /\ pageStore' = storePages(pageStore, fixPagesId, pagesToAudit(crawl[1]),
                                      SchemaFiles(ai), crawl[1].baseUrl,
                                      siteName(crawl[1]), now)
           /\ nextId' = fixPagesId
           /\ result' = << final >>
           /\ messages' = Append(messages, CompleteMessage(final))
           /\ pc' = "closed"
    /\ UNCHANGED << scorerVars, upload, serviceVars, crawlVars, apiKey, crawl, dimensions, ai, partial, report, now >>

Next ==
    \/ StartStream \/ RootResponds \/ LinkResponds \/ BatchJoin \/ NextBatch
    \/ AuxResponds \/ CrawlSucceeds \/ StartUpload
    \/ StepSchema \/ StepRobots \/ StepLlmsTxt \/ StepAeo
    \/ StepMeta \/ StepSitemap \/ StepSemantic \/ StepRendering
    \/ StartAi \/ AeoSettles \/ LlmsSettles \/ SchemaSettles \/ JoinAi
    \/ ReportSettles \/ BasicRun \/ FinishRun

Spec == Init /\ [][Next]_vars

(***************************************************************************)
(* Properties of the audit request                                         *)
(***************************************************************************)
\* the score of a dimension of a dimension list
ScoreOf(dims, id) == FindDimension(dims, id).score

\* the grade of the threshold table
ThresholdGrade(score) ==
    IF score >= 90 THEN "A" ELSE IF score >= 80 THEN "B"
    ELSE IF score >= 70 THEN "C" ELSE IF score >= 60 THEN "D" ELSE "F"

\* C2: every dimension of the returned AuditResult has its score within
\* [0, 100] and the grade of the threshold table, whatever score the AI
\* response carried when the AEO dimension was replaced by the blend.
ResultDimensionsInRange ==
    result # <<>> =>
        \A i \in 1..Len(result[1].dimensions) :
            /\ result[1].dimensions[i].score \in 0..100
            /\ result[1].dimensions[i].grade = ThresholdGrade(result[1].dimensions[i].score)

RankOf(dims, i) ==
    1 + Cardinality({ j \in 1..Len(dims) :
            \/ (100 - dims[j].score) * dims[j].weight > (100 - dims[i].score) * dims[i].weight
            \/ /\ (100 - dims[j].score) * dims[j].weight = (100 - dims[i].score) * dims[i].weight
               /\ j < i })

NoRequestToBlockedHost ==
    /\ requests # <<>> => ~BLOCKED_HOSTS(site.seedHost)
    /\ \A h \in hops : ~BLOCKED_HOSTS(h.host)

\* the urls crawlSite hands to fetch are never on a blocked host
DirectRequestsNotBlocked == requests # <<>> => ~BLOCKED_HOSTS(site.seedHost)

\* the paths of the pages the scorers may be handed
AuditedPaths(c) ==
    { c.pages[i].path : i \in 1..Min(MAX_PAGES_TO_AUDIT, Len(c.pages)) }

\* C6: at most 50 discovered links are queued and fetched, and at most 20
\* pages reach the scorers: pagesAudited = min(20, totalPages), every finding
\* that names a page names one of the first 20, and 20 pages at most are kept
\* for the fixes.
CeilingsHold ==
    /\ Len(toVisit) <= MAX_PAGES_TO_DISCOVER
    /\ Len(requests) <= 1 + MAX_PAGES_TO_DISCOVER + Len(AuxFiles)
    /\ \A i \in 1..Len(dimensions) :
          \A k \in 1..Len(dimensions[i].findings) :
              dimensions[i].findings[k].page # <<>> =>
                  dimensions[i].findings[k].page \in AuditedPaths(crawl[1])
    /\ result # <<>> =>
          /\ result[1].totalPages = Len(crawl[1].pages)
          /\ result[1].pagesAudited = Min(MAX_PAGES_TO_AUDIT, result[1].totalPages)
          /\ Len(pageStore[result[1].fixPagesId[1]].pages) = result[1].pagesAudited

\* a run returned for a site with more links than are queued, whose crawl
\* found more pages than are audited
CrawledMoreThanAudited ==
    /\ result # <<>>
    /\ Len(site.links) > MAX_PAGES_TO_DISCOVER
    /\ Len(toVisit) = MAX_PAGES_TO_DISCOVER
    /\ result[1].totalPages > MAX_PAGES_TO_AUDIT
    /\ result[1].pagesAudited = MAX_PAGES_TO_AUDIT

\* a sub-task succeeded: the capability answered with a JSON object (one
\* that has a files entry for the JSON-LD sub-task)
AeoSucceeded == ai.aeo.kind = "ok"
LlmsSucceeded == ai.llms.kind = "ok"
SchemaSucceeded == ai.schema.kind = "ok" /\ ai.schema.hasFiles

RunCompletesAfterCrawl ==
    crawl # <<>> =>
        /\ \A i \in 1..Len(messages) : messages[i].type # "error"
        /\ pc = "closed" =>
              /\ result # <<>>
              /\ messages[Len(messages)].type = "complete"

\* the same for the runs whose eight scorers all returned
RunCompletesAfterScorers ==
    Len(dimensions) = Len(DimensionIds) =>
        /\ \A i \in 1..Len(messages) : messages[i].type # "error"
        /\ pc = "closed" =>
              /\ result # <<>>
              /\ messages[Len(messages)].type = "complete"

\* the llms.txt sub-task failed: no answer, or one without both keys
LlmsFailed == ai.llms.kind # "ok" \/ ~ai.llms.hasLlmsTxt \/ ~ai.llms.hasLlmsFullTxt
\* the JSON-LD sub-task failed: no answer, or one without the files key
SchemaFailed == ai.schema.kind # "ok" \/ ~ai.schema.hasFiles

\* C9: when the llms.txt sub-task failed both llms files are the generators'
\* outputs, when the JSON-LD sub-task failed the JSON-LD files are the
\* generator's, and no file is undefined nor are the two llms files a mix of
\* AI and generated content.
FallbackIsTotal ==
    result # <<>> =>
        LET files == result[1].generatedFiles
        IN  /\ LlmsFailed =>
                  /\ files["llms.txt"] = generateLlmsTxt
                  /\ files["llms-full.txt"] = generateLlmsFullTxt
            /\ SchemaFailed =>
                  \A name \in DOMAIN generateSchemaJsonLd :
                      files[name] = generateSchemaJsonLd[name]
            /\ \A name \in DOMAIN files : files[name].by # "undefined"
            /\ files["llms.txt"].by = files["llms-full.txt"].by

\* the JSON-LD half of the fallback
JsonLdFallbackIsTotal ==
    result # <<>> /\ SchemaFailed =>
        \A name \in DOMAIN generateSchemaJsonLd :
            result[1].generatedFiles[name] = generateSchemaJsonLd[name]

\* the crawl found no robots.txt, llms.txt or sitemap.xml and no page with
\* JSON-LD
NothingToFind ==
    /\ crawl # <<>>
    /\ crawl[1].robotsTxt = NullText
    /\ crawl[1].llmsTxt = NullText
    /\ crawl[1].sitemapXml = NullText
    /\ \A i \in 1..Len(crawl[1].pages) : crawl[1].pages[i].jsonLd = <<>>

\* C11: for a crawl without robots.txt, llms.txt, sitemap.xml and JSON-LD the
\* returned result has the schema, robots, llmsTxt and sitemap scores 0 and
\* an overallScore of at most 35, with or without the AI overlay.
NothingFoundCapsOverall ==
    result # <<>> /\ NothingToFind =>
        /\ ScoreOf(result[1].dimensions, "schema") = 0
        /\ ScoreOf(result[1].dimensions, "robots") = 0
        /\ ScoreOf(result[1].dimensions, "llmsTxt") = 0
        /\ ScoreOf(result[1].dimensions, "sitemap") = 0
        /\ result[1].overallScore <= 35

\* the same with the cap kept to the runs whose AEO score is within range
NothingFoundCapsOverallInRange ==
    result # <<>> /\ NothingToFind =>
        /\ ScoreOf(result[1].dimensions, "schema") = 0
        /\ ScoreOf(result[1].dimensions, "robots") = 0
        /\ ScoreOf(result[1].dimensions, "llmsTxt") = 0
        /\ ScoreOf(result[1].dimensions, "sitemap") = 0
        /\ ScoreOf(result[1].dimensions, "aeo") <= 100 => result[1].overallScore <= 35

\* the archive has no entry that is a file named *.html or *.htm
ZeroHtmlEntries(entries) ==
    \A i \in 1..Len(entries) :
        \/ entries[i].dir
        \/ ~EndsWithHtml(LowerName(entries[i].path[Len(entries[i].path)]))

\* the dimensions the scorers and the AI step report progress for
ScorerNames ==
    { "Schema.org JSON-LD", "robots.txt", "llms.txt", "AEO Content Quality",
      "Meta & OG Tags", "sitemap.xml", "Semantic HTML", "Rendering", "AI Analysis" }

\* the places of the messages of the given types in the stream
PlacesOf(types) == { i \in 1..Len(messages) : messages[i].type \in types }

\* the places of the scorers' progress events in the stream
ScorerPlaces ==
    { i \in 1..Len(messages) :
        messages[i].type = "progress" /\ messages[i].dimension \in ScorerNames }

\* C12: an upload without any .html/.htm entry ends with the one error
\* message 'No HTML files found in the zip archive.'; runFullAudit is not
\* called, and no scorer progress event, info message or complete message is
\* sent.
ZeroHtmlUploadFails ==
    upload # <<>> /\ ZeroHtmlEntries(upload[1]) /\ pc # "start" =>
        /\ pc = "closed"
        /\ PlacesOf({"error"}) = { Len(messages) }
        /\ messages[Len(messages)].message = "No HTML files found in the zip archive."
        /\ PlacesOf({"info", "complete"}) = {}
        /\ ScorerPlaces = {}
        /\ crawl = <<>> /\ dimensions = <<>> /\ partial = <<>> /\ result = <<>>
        /\ store = EmptyMap /\ pageStore = EmptyMap

\* an archive with entries, none of them a page, was answered
ZeroHtmlUploadAnswered ==
    /\ upload # <<>>
    /\ upload[1] # <<>>
    /\ ZeroHtmlEntries(upload[1])
    /\ pc = "closed"

\* the shape of every audit stream, by URL or by upload
StreamShape ==
    /\ Cardinality(PlacesOf({"complete", "error"})) <= 1
    /\ PlacesOf({"complete", "error"}) \subseteq { Len(messages) }
    /\ PlacesOf({"complete", "error"}) # {} <=> pc = "closed"
    /\ Cardinality(PlacesOf({"info"})) <= 1
    /\ \A i \in PlacesOf({"info"}) : \A j \in ScorerPlaces : i < j
    /\ pc = "closed" /\ crawl = <<>> =>
          /\ messages[Len(messages)].type = "error"
          /\ PlacesOf({"info"}) = {}
          /\ result = <<>> /\ partial = <<>>
    /\ result # <<>> =>
          /\ messages[Len(messages)] = CompleteMessage(result[1])
          /\ Cardinality(PlacesOf({"info"})) = 1
          /\ ScorerPlaces # {}
    /\ PlacesOf({"complete"}) # {} => result # <<>>

\* the steps in the order a request takes them
StepOrder ==
    << "closed", "finish", "report", "aiWait", "ai", "rendering", "semantic", "sitemap",
       "meta", "aeo", "llmsTxt", "robots", "schema", "aux", "batch", "rootFetch",
       "start" >>

\* a bound on the steps the request has left: the place of pc, then the
\* batches not started, the fetches in flight and the AI calls not settled
StepsLeft ==
    (CHOOSE k \in 1..Len(StepOrder) :
        StepOrder[k] = IF pc = "pause" THEN "batch" ELSE pc) * 10000
    + (IF pc \in {"batch", "pause"}
       THEN 20 * (Len(toVisit) + CONCURRENCY - batchStart) ELSE 0)
    + (IF pc = "batch" THEN 2 * Cardinality(inFlight) + 1 ELSE 0)
    + (IF pc = "aux"
       THEN Cardinality({ n \in DOMAIN aux : aux[n].kind = "pending" }) ELSE 0)
    + (IF pc = "aiWait"
       THEN Cardinality({ n \in {"aeo", "llms", "schema"} : ai[n].kind = "pending" })
       ELSE 0)

\* C13: every audit stream ends with exactly one terminal message (complete
\* or error, never both) as its last; a crawl failure gives the error with
\* no info message and no result, and a successful run sends exactly one
\* info message, before the first scorer progress event.  That the stream
\* ends: every step lowers StepsLeft, so no request runs for ever.
StreamEndsWithOneTerminal ==
    /\ [](StreamShape)
    /\ [][StepsLeft' < StepsLeft]_vars

\* both kinds of request ended both ways
StreamEnded ==
    /\ pc = "closed"
    /\ upload # <<>>
    /\ result # <<>>
    /\ Cardinality(PlacesOf({"info"})) = 1

(***************************************************************************)
(* rate-limit.ts: the per-IP request counter                                *)
(***************************************************************************)
RATE_LIMIT_MAX == 5
RATE_LIMIT_WINDOW_MS == 3600000

\* the addresses requests come from
Ips == { "203.0.113.7", "198.51.100.9" }

\* what the clock advances by between two calls: a millisecond, half a window
ClockSteps == { 1, RATE_LIMIT_WINDOW_MS \div 2 }

\* how often the clock advances
MaxTicks == 4

\* how many requests of one window are refused
MaxDenied == 1

\* the entries of limits that cleanup() keeps
cleanupLimits(map, t) ==
    [ip \in { k \in DOMAIN map : ~(map[k].resetAt < t) } |-> map[ip]]

RateReply(allowed, remaining, resetAt) ==
    [allowed |-> allowed, remaining |-> remaining, resetAt |-> resetAt]

\* every allowed request opens a window of its own
checkRateLimitUncounted(map, ip, t) ==
    [ limits |-> (ip :> [count |-> 1, resetAt |-> t + RATE_LIMIT_WINDOW_MS])
                 @@ cleanupLimits(map, t),
      reply |-> RateReply(TRUE, RATE_LIMIT_MAX - 1, t + RATE_LIMIT_WINDOW_MS) ]

\* every allowed request moves the end of the window
checkRateLimitSliding(map, ip, t) ==
    LET kept == cleanupLimits(map, t)
    IN  IF ip \notin DOMAIN kept \/ kept[ip].resetAt < t
        THEN [ limits |-> (ip :> [count |-> 1, resetAt |-> t + RATE_LIMIT_WINDOW_MS])
                          @@ kept,
               reply |-> RateReply(TRUE, RATE_LIMIT_MAX - 1, t + RATE_LIMIT_WINDOW_MS) ]
        ELSE IF kept[ip].count >= RATE_LIMIT_MAX
        THEN [ limits |-> kept, reply |-> RateReply(FALSE, 0, kept[ip].resetAt) ]
        ELSE [ limits |-> [kept EXCEPT ![ip] = [ count |-> @.count + 1,
                                                 resetAt |-> t + RATE_LIMIT_WINDOW_MS ]],
               reply |-> RateReply(TRUE, RATE_LIMIT_MAX - (kept[ip].count + 1),
                                   t + RATE_LIMIT_WINDOW_MS) ]

\* checkRateLimit(ip) at time t: the map it leaves and what it returns
checkRateLimit(map, ip, t) ==
    LET kept == cleanupLimits(map, t)
    IN  IF ip \notin DOMAIN kept \/ kept[ip].resetAt < t
        THEN [ limits |-> (ip :> [count |-> 1, resetAt |-> t + RATE_LIMIT_WINDOW_MS])
                          @@ kept,
               reply |-> RateReply(TRUE, RATE_LIMIT_MAX - 1, t + RATE_LIMIT_WINDOW_MS) ]
        ELSE IF kept[ip].count >= RATE_LIMIT_MAX
        THEN [ limits |-> kept, reply |-> RateReply(FALSE, 0, kept[ip].resetAt) ]
        ELSE [ limits |-> [kept EXCEPT ![ip].count = @ + 1],
               reply |-> RateReply(TRUE, RATE_LIMIT_MAX - (kept[ip].count + 1),
                                   kept[ip].resetAt) ]

\* the window a request of ip at time t is counted in: the one open, or a
\* new one when none is open or the open one's hour has passed
\* (allInvalid: every request counted in it was answered 400; counted: the
\* routes of the requests counted in it)
WindowOf(ip, t, allowed, valid, route) ==
    IF ip \notin DOMAIN windows \/ t > windows[ip].start + RATE_LIMIT_WINDOW_MS
    THEN [ start |-> t, requests |-> 1, allowed |-> IF allowed THEN 1 ELSE 0,
           number |-> IF ip \in DOMAIN windows THEN windows[ip].number + 1 ELSE 1,
           allInvalid |-> ~valid, counted |-> {route} ]
    ELSE [ start |-> windows[ip].start, requests |-> windows[ip].requests + 1,
           allowed |-> windows[ip].allowed + (IF allowed THEN 1 ELSE 0),
           number |-> windows[ip].number,
           allInvalid |-> windows[ip].allInvalid /\ (allowed => ~valid),
           counted |-> windows[ip].counted \cup (IF allowed THEN {route} ELSE {}) ]

\* the clock has advanced by the steps of ClockSteps only
TicksTaken ==
    (now \div (RATE_LIMIT_WINDOW_MS \div 2)) + (now % (RATE_LIMIT_WINDOW_MS \div 2))

InitRateLimit ==
    /\ ScorersIdle
    /\ RunIdle
    /\ upload = <<>>
    /\ ServiceIdle

\* a request of ip reaches a route: checkRateLimit(ip)
CheckRateLimit(ip) ==
    LET r == checkRateLimit(limits, ip, now)
        w == WindowOf(ip, now, r.reply.allowed, TRUE, "audit")
    IN  /\ w.requests <= RATE_LIMIT_MAX + MaxDenied
        /\ limits' = r.limits
        /\ reply' = << [ ip |-> ip, at |-> now, allowed |-> r.reply.allowed,
                         remaining |-> r.reply.remaining, resetAt |-> r.reply.resetAt ] >>
        /\ windows' = (ip :> w) @@ windows
        /\ UNCHANGED << scorerVars, crawlVars, runVars, upload, issued >>

\* the two routes that start an audit
AuditRoutes == { "audit", "upload" }

\* the status had the body been validated before the limit is consulted
PostStatusValidatedFirst(allowed, valid) ==
    IF ~valid THEN 400 ELSE IF ~allowed THEN 429 ELSE 200

\* the status a POST is answered with: 429 when checkRateLimit refuses, else
\* 400 when the body does not pass the route's validation, else the stream
PostStatus(allowed, valid) == IF ~allowed THEN 429 ELSE IF ~valid THEN 400 ELSE 200

\* a POST of ip reaches a route with a body that passes the route's
\* validation or does not: checkRateLimit(ip), then the validation
Post(route, ip, valid) ==
    LET r == checkRateLimit(limits, ip, now)
        w == WindowOf(ip, now, r.reply.allowed, valid, route)
    IN  /\ w.requests <= RATE_LIMIT_MAX + MaxDenied
        /\ limits' = r.limits
        /\ reply' = << [ ip |-> ip, at |-> now, allowed |-> r.reply.allowed,
                         remaining |-> r.reply.remaining, resetAt |-> r.reply.resetAt,
                         route |-> route, valid |-> valid,
                         status |-> PostStatus(r.reply.allowed, valid) ] >>
        /\ windows' = (ip :> w) @@ windows
        /\ UNCHANGED << scorerVars, crawlVars, runVars, upload, issued >>

\* POST /api/audit
PostAudit(ip, valid) == Post("audit", ip, valid)

\* POST /api/audit/upload
PostUpload(ip, valid) == Post("upload", ip, valid)

\* time passes between two requests
TickRateLimit ==
    /\ TicksTaken < MaxTicks
    /\ \E d \in ClockSteps : now' = now + d
    /\ UNCHANGED << scorerVars, crawlVars, apiKey, crawl, pc, dimensions, ai, partial,
                    report, result, messages, store, pageStore, nextId, upload,
                    serviceVars >>

NextRateLimit ==
    \/ \E ip \in Ips : CheckRateLimit(ip)
    \/ TickRateLimit

SpecRateLimit == InitRateLimit /\ [][NextRateLimit]_vars

\* how often a window of the routes' requests runs out
MaxWindowsPassed == 1

\* more than a window passes between two requests
WindowPasses ==
    /\ now < MaxWindowsPassed * (RATE_LIMIT_WINDOW_MS + 1)
    /\ now' = now + RATE_LIMIT_WINDOW_MS + 1
    /\ UNCHANGED << scorerVars, crawlVars, apiKey, crawl, pc, dimensions, ai, partial,
                    report, result, messages, store, pageStore, nextId, upload,
                    serviceVars >>

NextRoutes ==
    \/ \E ip \in Ips, valid \in BOOLEAN : PostAudit(ip, valid)
    \/ \E ip \in Ips, valid \in BOOLEAN : PostUpload(ip, valid)
    \/ WindowPasses

\* the requests of the two audit routes
SpecRoutes == InitRateLimit /\ [][NextRoutes]_vars

\* C14: of the requests of one IP in one window (from its first request to
\* resetAt) at most RATE_LIMIT_MAX are allowed; an allowed request is told
\* RATE_LIMIT_MAX minus the number allowed so far in the window, every
\* further one is refused with remaining 0 and the window's resetAt.
AtMostMaxPerWindow ==
    /\ \A ip \in DOMAIN windows : windows[ip].allowed <= RATE_LIMIT_MAX
    /\ reply # <<>> =>
         LET w == windows[reply[1].ip]
         IN  /\ reply[1].allowed <=> w.requests <= RATE_LIMIT_MAX
             /\ reply[1].allowed => reply[1].remaining = RATE_LIMIT_MAX - w.allowed
             /\ ~reply[1].allowed =>
                  /\ w.allowed = RATE_LIMIT_MAX
                  /\ reply[1].remaining = 0
                  /\ reply[1].resetAt = w.start + RATE_LIMIT_WINDOW_MS
                  /\ reply[1].at <= reply[1].resetAt

\* a request was refused
RequestRefused ==
    /\ reply # <<>>
    /\ ~reply[1].allowed
    /\ windows[reply[1].ip].requests > RATE_LIMIT_MAX

\* C15: the window is fixed: resetAt is the time of the window's first
\* request plus one hour and no later request of the window moves it; the
\* first request after resetAt has passed is allowed and opens a new window
\* with count 1 (remaining RATE_LIMIT_MAX - 1).
WindowIsFixed ==
    /\ [](reply # <<>> =>
            reply[1].resetAt = windows[reply[1].ip].start + RATE_LIMIT_WINDOW_MS)
    /\ [][\A ip \in DOMAIN limits :
            ~(limits[ip].resetAt < now') =>
                /\ ip \in DOMAIN limits'
                /\ limits'[ip].resetAt = limits[ip].resetAt]_vars
    /\ [][\A ip \in DOMAIN limits :
            (limits[ip].resetAt < now /\ reply' # reply /\ reply'[1].ip = ip) =>
                /\ reply'[1].allowed
                /\ reply'[1].remaining = RATE_LIMIT_MAX - 1
                /\ reply'[1].resetAt = now + RATE_LIMIT_WINDOW_MS
                /\ limits'[ip] = [count |-> 1, resetAt |-> now + RATE_LIMIT_WINDOW_MS]]_vars

\* an IP was answered in the second window of its requests
SecondWindowOpened ==
    /\ reply # <<>>
    /\ windows[reply[1].ip].number = 2
    /\ windows[reply[1].ip].requests = 1
    /\ reply[1].allowed
    /\ reply[1].at > RATE_LIMIT_WINDOW_MS

(***************************************************************************)
(* store.ts read back: the download and fix-pages routes                   *)
(***************************************************************************)
\* how many ids generateId hands out
MaxIds == 2

\* the artifact bundles storeResult is handed
FileBundles ==
    { [ name \in {"llms.txt"} |-> "llms" ],
      [ name \in {"llms.txt", "remediation-report.md"} |-> "text" ] }

\* the page snapshots storePages is handed
Snapshots ==
    { [ pages |-> << GoodPage(<<"/">>) >>, schemaFiles |-> EmptyMap,
        baseUrl |-> <<Origin>>, siteName |-> "example.com" ],
      [ pages |-> << BarePage(<<"/">>), GoodPage(<<"/", "about">>) >>,
        schemaFiles |-> [ name \in {"schema/organization.json"} |-> "json" ],
        baseUrl |-> <<Origin>>, siteName |-> "example.com" ] }

\* a get that returns whatever the map holds, however old
getStoredResultStale(map, id, t) ==
    [ map |-> map,
      value |-> IF id \in DOMAIN map THEN << map[id].files >> ELSE <<>> ]

\* getStoredResult(id) at time t: the map it leaves and <<>> for null, or
\* the files in a 1-tuple
getStoredResult(map, id, t) ==
    LET kept == cleanup(map, t)
    IN  IF id \notin DOMAIN kept
        THEN [ map |-> kept, value |-> <<>> ]
        ELSE IF kept[id].expiresAt < t
        THEN [ map |-> [k \in DOMAIN kept \ {id} |-> kept[k]], value |-> <<>> ]
        ELSE [ map |-> kept, value |-> << kept[id].files >> ]

\* getStoredPages(id) at time t: the map it leaves and <<>> for null, or the
\* entry in a 1-tuple
getStoredPages(map, id, t) ==
    LET kept == cleanup(map, t)
    IN  IF id \notin DOMAIN kept
        THEN [ map |-> kept, value |-> <<>> ]
        ELSE IF kept[id].expiresAt < t
        THEN [ map |-> [k \in DOMAIN kept \ {id} |-> kept[k]], value |-> <<>> ]
        ELSE [ map |-> kept, value |-> << kept[id] >> ]

\* the snapshot an entry of pageStore holds
SnapshotOf(entry) ==
    [ pages |-> entry.pages, schemaFiles |-> entry.schemaFiles,
      baseUrl |-> entry.baseUrl, siteName |-> entry.siteName ]

\* what a route answers: 404 when the store returned null
RouteReply(call, id, value) ==
    [ call |-> call, id |-> id, at |-> now,
      status |-> IF value = <<>> THEN 404 ELSE 200, value |-> value ]

StoreClockSteps == { 1, STORE_TTL_MS \div 2 }

\* how often the clock advances between calls to the stores
MaxStoreTicks == 3

StoreTicksTaken == (now \div (STORE_TTL_MS \div 2)) + (now % (STORE_TTL_MS \div 2))

InitStore ==
    /\ ScorersIdle
    /\ RunIdle
    /\ upload = <<>>
    /\ ServiceIdle

\* storeResult(files)
StoreResult ==
    /\ nextId < MaxIds
    /\ \E files \in FileBundles :
         /\ store' = storeResult(store, nextId + 1, files, now)
         /\ issued' = (nextId + 1 :> [kind |-> "files", value |-> files, at |-> now])
                      @@ issued
    /\ pageStore' = cleanup(pageStore, now)
    /\ nextId' = nextId + 1
    /\ reply' = << [call |-> "storeResult", id |-> nextId + 1, at |-> now] >>
    /\ UNCHANGED << scorerVars, crawlVars, apiKey, crawl, pc, dimensions, ai, partial,
                    report, result, messages, now, upload, limits, windows >>

\* storePages(pages, schemaFiles, baseUrl, siteName)
StorePages ==
    /\ nextId < MaxIds
    /\ \E s \in Snapshots :
         /\ pageStore' = storePages(pageStore, nextId + 1, s.pages, s.schemaFiles,
                                    s.baseUrl, s.siteName, now)
         /\ issued' = (nextId + 1 :> [kind |-> "pages", value |-> s, at |-> now])
                      @@ issued
    /\ store' = cleanup(store, now)
    /\ nextId' = nextId + 1
    /\ reply' = << [call |-> "storePages", id |-> nextId + 1, at |-> now] >>
    /\ UNCHANGED << scorerVars, crawlVars, apiKey, crawl, pc, dimensions, ai, partial,
                    report, result, messages, now, upload, limits, windows >>

\* GET /api/audit/download?id=...
Download(id) ==
    LET got == getStoredResult(store, id, now)
    IN  /\ store' = got.map
        /\ pageStore' = cleanup(pageStore, now)
        /\ reply' = << RouteReply("download", id, got.value) >>
        /\ UNCHANGED << scorerVars, crawlVars, apiKey, crawl, pc, dimensions, ai,
                        partial, report, result, messages, nextId, now, upload, limits,
                        windows, issued >>

\* POST /api/audit/fix-pages {fixPagesId}
FixPages(id) ==
    LET got == getStoredPages(pageStore, id, now)
    IN  /\ pageStore' = got.map
        /\ store' = cleanup(store, now)
        /\ reply' = << RouteReply("fix-pages", id,
                                  IF got.value = <<>> THEN <<>>
                                  ELSE << SnapshotOf(got.value[1]) >>) >>
        /\ UNCHANGED << scorerVars, crawlVars, apiKey, crawl, pc, dimensions, ai,
                        partial, report, result, messages, nextId, now, upload, limits,
                        windows, issued >>

\* time passes between two calls; the last answer has been delivered
TickStore ==
    /\ StoreTicksTaken < MaxStoreTicks
    /\ \E d \in StoreClockSteps : now' = now + d
    /\ reply' = <<>>
    /\ UNCHANGED << scorerVars, crawlVars, apiKey, crawl, pc, dimensions, ai, partial,
                    report, result, messages, store, pageStore, nextId, upload,
                    limits, windows, issued >>

NextStore ==
    \/ StoreResult
    \/ StorePages
    \/ \E id \in 1..MaxIds : Download(id)
    \/ \E id \in 1..MaxIds : FixPages(id)
    \/ TickStore

SpecStore == InitStore /\ [][NextStore]_vars

\* the id was returned by the store the call reads
IssuedFor(r) ==
    /\ r.id \in DOMAIN issued
    /\ issued[r.id].kind = IF r.call = "download" THEN "files" ELSE "pages"

\* C16: in both stores a get with an id the store returned, made before the
\* TTL has elapsed, returns exactly what was stored; a get with an id the
\* store never returned, or made after the TTL, returns null, and the
\* download and fix-pages routes answer 404.
StoredValueOrNull ==
    (reply # <<>> /\ reply[1].call \in {"download", "fix-pages"}) =>
        LET r == reply[1]
        IN  /\ (IssuedFor(r) /\ r.at < issued[r.id].at + STORE_TTL_MS) =>
                 r.status = 200 /\ r.value = << issued[r.id].value >>
            /\ (~IssuedFor(r) \/ r.at > issued[r.id].at + STORE_TTL_MS) =>
                 r.status = 404 /\ r.value = <<>>
            /\ r.value # <<>> => IssuedFor(r) /\ r.value = << issued[r.id].value >>

\* ids of both stores were handed out, and a route answered 404 for one of
\* them after its hour had passed
ExpiredIdRefused ==
    /\ reply # <<>>
    /\ reply[1].call \in {"download", "fix-pages"}
    /\ IssuedFor(reply[1])
    /\ reply[1].at > issued[reply[1].id].at + STORE_TTL_MS
    /\ reply[1].status = 404
    /\ \E id \in DOMAIN issued :
         issued[id].kind # issued[reply[1].id].kind

(***************************************************************************)
(* Scorers handed missing input                                            *)
(***************************************************************************)
\* the scorers whose only input is the page list
PageScorers == { "schema", "aeo", "meta", "semantic", "rendering" }

\* the optional input of the scorer that returned d is missing
InputMissing(d) ==
    \/ d.id = "robots" /\ input.robotsTxt = NullText
    \/ d.id = "sitemap" /\ input.sitemapXml = NullText
    \/ d.id = "llmsTxt" /\ input.llmsTxt = NullText
    \/ d.id \in PageScorers /\ input.pages = <<>>

\* score 0 with a finding of type "fail"
FloorWithFail(d) ==
    /\ d.score = 0
    /\ \E i \in 1..Len(d.findings) : d.findings[i].type = "fail"

\* C17: a scorer handed missing optional input (checkRobots, checkSitemap,
\* checkLlmsTxt with a null file; the page-based scorers with an empty page
\* list) does not throw and returns score 0 with at least one finding of
\* type "fail".  (Only a page-based scorer can throw, and only on a page.)
MissingInputYieldsFail ==
    out # <<>> =>
        IF IsThrew(out[1]) THEN input.pages # <<>>
        ELSE InputMissing(out[1]) => FloorWithFail(out[1])

\* the same for the scorers that explain their floor: the three file
\* scorers and checkSchema; the other four return score 0 all the same
MissingFileYieldsFail ==
    out # <<>> =>
        IF IsThrew(out[1]) THEN input.pages # <<>>
        ELSE InputMissing(out[1]) =>
               /\ out[1].score = 0
               /\ out[1].id \notin {"aeo", "meta", "semantic", "rendering"} =>
                    FloorWithFail(out[1])

(***************************************************************************)
(* The report enhancement                                                  *)
(***************************************************************************)
ThreeSettled ==
    ai.aeo.kind # "pending" /\ ai.llms.kind # "pending" /\ ai.schema.kind # "pending"

SomeSubTaskSucceeded == AeoSucceeded \/ LlmsSucceeded \/ SchemaSucceeded

\* enhanceReportWithAI has been called, or is being awaited
ReportAttempted == pc = "report" \/ ai.report.kind # "pending"

\* the report call answered with a text long enough
ReportTaken == ai.report.kind = "ok" /\ ai.report.length > MinReportLength

DiagnosticSteps(r) == [i \in 1..Len(r.aiDiagnostics) |-> r.aiDiagnostics[i].step]

IsPrefixOf(s, t) == Len(s) <= Len(t) /\ SubSeq(t, 1, Len(s)) = s

SubTaskSteps == << "AEO Enhancement", "llms.txt Generation", "Schema JSON-LD" >>

\* C19: with a capability configured the result's aiDiagnostics holds one
\* entry per AI sub-task attempted, whatever its outcome: "AEO Enhancement",
\* "llms.txt Generation", "Schema JSON-LD" in that order, then "Report
\* Enhancement" iff the report enhancement was attempted; entries are only
\* appended; with no capability there is no aiDiagnostics.
DiagnosticsPerSubTask ==
    /\ [](result # <<>> =>
            IF apiKey
            THEN /\ DiagnosticSteps(result[1]) =
                      SubTaskSteps \o (IF ai.report.kind # "pending"
                                       THEN << "Report Enhancement" >> ELSE <<>>)
                 /\ result[1].aiDiagnostics[1].success = AeoSucceeded
                 /\ result[1].aiDiagnostics[2].success = LlmsSucceeded
                 /\ result[1].aiDiagnostics[3].success = SchemaSucceeded
                 /\ ai.report.kind # "pending" =>
                      result[1].aiDiagnostics[4].success = ReportTaken
            ELSE result[1].aiDiagnostics = <<>>)
    /\ [][(partial # <<>> /\ partial' # <<>>) =>
            IsPrefixOf(partial[1].aiDiagnostics, partial'[1].aiDiagnostics)]_vars
    /\ [][(partial # <<>> /\ result' # <<>>) =>
            IsPrefixOf(partial[1].aiDiagnostics, result'[1].aiDiagnostics)]_vars

\* a run whose AEO promise rejected and whose report call failed returned
\* four entries
FourDiagnostics ==
    /\ result # <<>>
    /\ ai.aeo.kind = "rejected"
    /\ ai.report.kind = "error"
    /\ Len(result[1].aiDiagnostics) = 4

(***************************************************************************)
(* The AEO blend                                                           *)
(***************************************************************************)
\* what checkAeoContent returned for the audited pages
DeterministicAeo == checkAeoContent(pagesToAudit(crawl[1]))

ReturnedAeo == FindDimension(result[1].dimensions, "aeo")

AuxStarted == \E n \in DOMAIN aux : aux[n] # AuxPending[n]

\* C21: at most CONCURRENCY page fetches are in flight at any instant, all
\* of one batch of at most CONCURRENCY links; no fetch starts while a fetch
\* of the batch before is in flight; the four text files are fetched only
\* after the last page batch has settled.
BatchesOfFive ==
    /\ [](/\ Cardinality(inFlight) <= CONCURRENCY
          /\ \A k \in inFlight : batchStart <= k /\ k < batchStart + CONCURRENCY
          /\ (pc = "aux" \/ AuxStarted) => inFlight = {} /\ batchStart > Len(toVisit))
    /\ [][requests' # requests => inFlight = {}]_vars
    /\ [][batchStart' # batchStart =>
            inFlight = {} /\ batchStart' = batchStart + CONCURRENCY]_vars

\* a later batch is in flight at full width
FullBatchInFlight ==
    /\ pc = "batch"
    /\ batchStart > CONCURRENCY
    /\ Cardinality(inFlight) = CONCURRENCY

(***************************************************************************)
(* crawlSite: one request per page                                         *)
(***************************************************************************)
NoDuplicates(s) == \A i, j \in 1..Len(s) : s[i] = s[j] => i = j

\* the page a url of the site denotes: the root with or without its slash
PageOf(url) == IF url = baseUrl THEN << Origin, "/" >> ELSE url

PathsOf(ps) == [i \in 1..Len(ps) |-> ps[i].path]

\* C22: within one crawl every page is requested at most once, the seed
\* page included when the root page links back to it, and no two entries of
\* CrawlResult.pages have the same path.
EachPageOnce ==
    upload = <<>> =>
        /\ NoDuplicates([i \in 1..Len(requests) |-> PageOf(requests[i])])
        /\ NoDuplicates(PathsOf(pages))

\* no url is requested twice as written, so a fetch that failed is not
\* repeated
EachUrlOnce == upload = <<>> => NoDuplicates(requests)

(***************************************************************************)
(* The order of the progress events                                        *)
(***************************************************************************)
StepLabels ==
    << "Schema.org JSON-LD", "robots.txt", "llms.txt", "AEO Content Quality",
       "Meta & OG Tags", "sitemap.xml", "Semantic HTML", "Rendering", "AI Analysis" >>

\* the places of the progress events of a label, of the given statuses
EventsOf(label, statuses) ==
    { i \in 1..Len(messages) :
        /\ messages[i].type = "progress"
        /\ messages[i].dimension = label
        /\ messages[i].status \in statuses }

AnyStatus == { "running", "complete", "skipped" }

\* the events of the k-th label are in order among themselves and come
\* before those of the labels after it
LabelInOrder(k) ==
    /\ Cardinality(EventsOf(StepLabels[k], {"complete", "skipped"})) <= 1
    /\ \A t \in EventsOf(StepLabels[k], {"complete", "skipped"}) :
         \A i \in EventsOf(StepLabels[k], AnyStatus) : i <= t
    /\ \A l \in (k + 1)..Len(StepLabels) :
         \A i \in EventsOf(StepLabels[k], AnyStatus) :
           \A j \in EventsOf(StepLabels[l], AnyStatus) : i < j
    /\ \A l \in (k + 1)..Len(StepLabels) :
         EventsOf(StepLabels[l], AnyStatus) # {} =>
           EventsOf(StepLabels[k], {"complete"}) # {}

\* C23: the progress events follow the order of the nine labels; for each
\* label every running event precedes its single complete or skipped event,
\* no event of the label follows that event, and a label's complete event
\* precedes the first event of the next label.
ProgressInOrder == \A k \in 1..Len(StepLabels) : LabelInOrder(k)

\* the same for the eight scorer labels alone
ScorerProgressInOrder == \A k \in 1..(Len(StepLabels) - 1) : LabelInOrder(k)

(***************************************************************************)
(* checkRobots: the three classes                                          *)
(***************************************************************************)
\* the file has `type: /' in a User-agent block of the given agent (agent
\* names compared in lower case)
BlockHas(lines, agent, type) ==
    \E j \in 1..Len(lines) :
        /\ lines[j] = Line(type, "/")
        /\ AgentLineOf(lines, j) # 0
        /\ Lower(lines[AgentLineOf(lines, j)].v) = Lower(agent)

\* the file has a User-agent block of the crawler
HasOwnBlock(lines, crawler) ==
    \E j \in 1..Len(lines) :
        lines[j].k = "ua" /\ lines[j].v # "" /\ Lower(lines[j].v) = Lower(crawler)

\* the wildcard block has Disallow: / (the wildcard is matched as written)
WildcardDisallows(lines) ==
    \E j \in 1..Len(lines) :
        /\ lines[j] = Line("disallow", "/")
        /\ AgentLineOf(lines, j) # 0
        /\ lines[AgentLineOf(lines, j)].v = "*"

\* specific-then-wildcard precedence
ExpectedClass(lines, crawler) ==
    LET blocked ==
          IF BlockHas(lines, crawler, "allow") THEN FALSE
          ELSE IF BlockHas(lines, crawler, "disallow") THEN TRUE
          ELSE WildcardDisallows(lines)
    IN  IF blocked THEN "blocked"
        ELSE IF HasOwnBlock(lines, crawler) THEN "allowed"
        ELSE "missing"

\* the finding of checkRobots that lists the crawler, if any
ListedIn(d, message, crawler) ==
    \E i \in 1..Len(d.findings) :
        d.findings[i].message[1] = message /\ SeqHas(d.findings[i].detail, crawler)

\* the classes the result shows the crawler in
ShownClasses(d, crawler) ==
    { c \in {"blocked", "allowed", "missing"} :
        \/ c = "blocked" /\ ListedIn(d, "AI crawlers blocked", crawler)
        \/ c = "allowed" /\ ListedIn(d, "AI crawlers explicitly allowed", crawler)
        \/ c = "missing" /\ ~ListedIn(d, "AI crawlers blocked", crawler)
                         /\ ~ListedIn(d, "AI crawlers explicitly allowed", crawler) }

\* checkRobots has rated a robots.txt that is there
RobotsRated ==
    /\ out # <<>>
    /\ ~IsThrew(out[1])
    /\ out[1].id = "robots"
    /\ ~Falsy(input.robotsTxt)

\* no agent is named by two User-agent lines
AgentsNamedOnce(lines) ==
    \A i, j \in 1..Len(lines) :
        (lines[i].k = "ua" /\ lines[j].k = "ua" /\ Lower(lines[i].v) = Lower(lines[j].v))
            => i = j

\* C24: checkRobots puts each roster crawler in exactly one of blocked,
\* explicitly allowed, unlisted: blocked when its own block has Disallow: /
\* and no Allow: /, never blocked when its own block has Allow: /, otherwise
\* blocked iff the wildcard block has Disallow: /; a crawler not blocked is
\* explicitly allowed iff it has a block of its own.
ClassifiedBySpecificThenWildcard ==
    RobotsRated =>
        \A n \in 1..Len(AI_CRAWLERS) :
            ShownClasses(out[1], AI_CRAWLERS[n]) =
                { ExpectedClass(input.robotsTxt.lines, AI_CRAWLERS[n]) }

\* the same for the files that name no agent twice
SingleBlocksClassified ==
    (RobotsRated /\ AgentsNamedOnce(input.robotsTxt.lines)) =>
        \A n \in 1..Len(AI_CRAWLERS) :
            ShownClasses(out[1], AI_CRAWLERS[n]) =
                { ExpectedClass(input.robotsTxt.lines, AI_CRAWLERS[n]) }

(***************************************************************************)
(* checkRendering: the SPA cap                                             *)
(***************************************************************************)
SpaCapScore == 20

\* checkRendering has rated pages that all match the empty-mount pattern
\* with fewer than 200 characters of text
EmptyMountsRated ==
    /\ out # <<>>
    /\ ~IsThrew(out[1])
    /\ out[1].id = "rendering"
    /\ input.pages # <<>>
    /\ \A i \in 1..Len(input.pages) :
         input.pages[i].isSPA /\ input.pages[i].bodyTextLength < 200

\* C25: a page that matches the SPA empty-mount pattern and has fewer than
\* 200 characters of body text contributes at most 20 to the average of
\* checkRendering, whatever other markers it has: when every page is such a
\* page the score is at most 20.
EmptyMountCappedAtTwenty == EmptyMountsRated => out[1].score <= SpaCapScore

\* the cap holds for the pages without SSR marker, noscript fallback and
\* headings
BareEmptyMountCapped ==
    ( /\ EmptyMountsRated
      /\ \A i \in 1..Len(input.pages) :
           /\ ~input.pages[i].hasSSR
           /\ ~input.pages[i].hasNoscript
           /\ Len(input.pages[i].headings) = 0 )
    => out[1].score <= SpaCapScore


(***************************************************************************)
(* The run with a capability whose calls all fail, against the run without *)
(***************************************************************************)
\* what the scorers return for a crawl, in the order runFullAudit calls them
ScorerResults(c) ==
    << checkSchema(pagesToAudit(c)),
       checkRobots(c.robotsTxt),
       checkLlmsTxt(c.llmsTxt, c.llmsFullTxt, pagesToAudit(c)),
       checkAeoContent(pagesToAudit(c)),
       checkMetaTags(pagesToAudit(c)),
       checkSitemap(c.sitemapXml, c.robotsTxt, pagesToAudit(c)),
       checkSemantic(pagesToAudit(c)),
       checkRendering(pagesToAudit(c)) >>

\* what runFullAudit returns for a crawl when hasApiKey() is false
BasicResultOf(c) ==
    AuditResult(c, OverallScore(ScorerResults(c), ScoreOf(ScorerResults(c), "aeo")),
                ScorerResults(c), 0, "basic",
                ("remediation-report.md" :> generateRemediationReport) @@ BasicPathFiles,
                <<>>, <<>>)

\* robots.txt, sitemap.xml, llms.txt, llms-full.txt and the JSON-LD files
FixFiles(files) == [f \in DOMAIN files \ {"remediation-report.md"} |-> files[f]]

\* the fields the two runs are compared on
SameFindings(r, basic) ==
    /\ r.dimensions = basic.dimensions
    /\ r.overallScore = basic.overallScore
    /\ r.grade = basic.grade
    /\ r.priorities = basic.priorities
    /\ FixFiles(r.generatedFiles) = FixFiles(basic.generatedFiles)

StoredBundleIsResultFiles ==
    result # <<>> =>
        /\ "remediation-report.md" \in DOMAIN result[1].generatedFiles
        /\ result[1].generatedFiles["remediation-report.md"] = report[1]
        /\ getStoredResult(store, result[1].downloadId, now).value
              = << result[1].generatedFiles >>

\* a run whose report was rewritten by the AI call has returned, and the
\* stored bundle holds the rewritten report
EnhancedReportStored ==
    /\ result # <<>>
    /\ ReportTaken
    /\ result[1].downloadId \in DOMAIN store
    /\ "remediation-report.md" \in DOMAIN store[result[1].downloadId].files
    /\ store[result[1].downloadId].files["remediation-report.md"]
          = AiText("remediation-report.md")


(***************************************************************************)
(* The scores of the progress events against the scores of the result      *)
(***************************************************************************)
\* the complete event of the k-th scorer carries the score that
\* result.dimensions holds for the k-th dimension
EventScoreIsResultScore(k) ==
    \A i \in EventsOf(StepLabels[k], {"complete"}) :
        messages[i].score = << ScoreOf(result[1].dimensions, DimensionIds[k]) >>

\* C28: for each of the eight dimensions, the score of its 'complete'
\* progress event equals that dimension's score in result.dimensions of the
\* terminal complete message, on the AI path as well as on the basic path.
EventScoresAreResultScores ==
    result # <<>> => \A k \in 1..Len(DimensionIds) : EventScoreIsResultScore(k)

\* the same wherever the AEO dimension was not replaced by the blend: every
\* dimension but AEO on every run, and AEO too when the AEO call failed or no
\* capability is configured
UnblendedEventScoresAreResultScores ==
    result # <<>> =>
        \A k \in 1..Len(DimensionIds) :
            (DimensionIds[k] # "aeo" \/ ~apiKey \/ ~AeoSucceeded) => EventScoreIsResultScore(k)


(***************************************************************************)
(* The rate limit of the two audit routes                                  *)
(***************************************************************************)
\* C29: the rate limit is charged before the input is validated and is shared
\* by the two audit routes: every POST of an IP, to either route and whether
\* or not its body is valid, counts in the IP's window, so a request answered
\* 400 counts too, and once five requests of the window were counted the next
\* one, valid or not and to either route, is answered 429.
LimitChargedBeforeValidation ==
    reply # <<>> =>
        LET w == windows[reply[1].ip]
        IN  /\ reply[1].route \in AuditRoutes
            /\ reply[1].ip \in DOMAIN limits
            /\ limits[reply[1].ip].count = Min(w.requests, RATE_LIMIT_MAX)
            /\ reply[1].status = 429 <=> w.requests > RATE_LIMIT_MAX
            /\ reply[1].status = 400 <=> (w.requests <= RATE_LIMIT_MAX /\ ~reply[1].valid)
            /\ reply[1].status = 200 <=> (w.requests <= RATE_LIMIT_MAX /\ reply[1].valid)

\* a valid upload is answered 429 after five requests of its window that
\* all went to the other route and were all answered 400
ValidRequestRefusedAfterInvalidOnes ==
    /\ reply # <<>>
    /\ reply[1].valid
    /\ reply[1].route = "upload"
    /\ reply[1].status = 429
    /\ windows[reply[1].ip].counted = {"audit"}
    /\ windows[reply[1].ip].allInvalid
    /\ windows[reply[1].ip].requests = RATE_LIMIT_MAX + 1


(***************************************************************************)
(* store.ts: when expired entries leave the stores                         *)
(***************************************************************************)
\* no entry of the map has an expiresAt earlier than t
NoneExpired(map, t) == \A id \in DOMAIN map : ~(map[id].expiresAt < t)

\* every entry that leaves the map in this step has its expiresAt behind it
OnlyExpiredLeave(map, after, t) ==
    \A id \in DOMAIN map \ DOMAIN after : map[id].expiresAt < t

\* C30: cleanup is opportunistic and exact: when storeResult, getStoredResult,
\* storePages or getStoredPages returns, neither store holds an entry whose
\* expiresAt is earlier than the time of the call, and no entry is ever
\* removed before its expiresAt has passed.
CleanupIsExact ==
    /\ [](reply # <<>> =>
            /\ NoneExpired(store, reply[1].at)
            /\ NoneExpired(pageStore, reply[1].at))
    /\ [][/\ OnlyExpiredLeave(store, store', now')
          /\ OnlyExpiredLeave(pageStore, pageStore', now')]_vars

\* a call on the page store has returned and an expired bundle of the file
\* store, issued earlier, is gone with it
ExpiredBundleSwept ==
    /\ reply # <<>>
    /\ reply[1].call \in {"storePages", "fix-pages"}
    /\ \E id \in DOMAIN issued :
         /\ issued[id].kind = "files"
         /\ issued[id].at + STORE_TTL_MS < reply[1].at
         /\ id \notin DOMAIN store

\* between two calls an expired entry is still in a store
ExpiredEntryLingers ==
    /\ reply = <<>>
    /\ \/ ~NoneExpired(store, now)
       \/ ~NoneExpired(pageStore, now)

\* an entry whose expiresAt is the present moment has outlived a call
EntryKeptAtExpiry ==
    /\ reply # <<>>
    /\ \E id \in DOMAIN store : store[id].expiresAt = reply[1].at

=============================================================================
